---------------------------- MODULE Spec2Model ----------------------------
(***************************************************************************)
(* Model of the Clearnode RPC client of the faucet server                  *)
(* (server/internal/clearnode/client.go): one Client value, its socket(s), *)
(* the reader goroutine started by every Connect, and a bounded number of  *)
(* caller goroutines running Transfer, Authenticate or the token request   *)
(* of the HTTP server (server/internal/server/server.go).                  *)
(*                                                                         *)
(* Granularity.  Every action is one access to state shared between        *)
(* goroutines (an atomic, a critical section of responseMu or mu, a channel*)
(* operation, a socket operation) together with the goroutine-local code   *)
(* around it.  Two consecutive shared accesses of one goroutine are put in *)
(* one action only where every step of another goroutine commutes with one *)
(* of them, so the reachable states at the action boundaries are those of  *)
(* the code.                                                               *)
(***************************************************************************)
EXTENDS Integers, Sequences, FiniteSets

\* Number of caller goroutines (each runs one Transfer, one Authenticate or
\* one token request).
MaxCalls == 2
\* Number of successful dials of Connect.
MaxConns == 2

VARIABLES
    conn,             \* Client.conn: 0 is nil, k > 0 the socket of the k-th dial
    isConnected,      \* Client.isConnected (atomic.Bool)
    lastReqID,        \* Client.lastReqID (atomic.Uint64)
    pendingRequests,  \* Client.pendingRequests: request ID -> channel
    muHeld,           \* Client.mu is locked and will never be unlocked
    chanbuf,          \* buffer (capacity 1) of every channel a caller still holds
    sock,             \* state of every dialled socket
    reader,           \* the listenForResponses goroutine of every dial
    call,             \* the caller goroutines
    wire,             \* envelopes written to a socket
    ev,               \* what the last step did, when it was a return of a
                      \* call or a dispatch of the reader loop
    jwtToken,         \* Client.jwtToken (0: none)
    assigned,         \* history: the request IDs in order of assignment
    authenticated,    \* history: the sockets on which a handshake succeeded
    unit,             \* the call of a sequential function that is examined on
                      \* its own (name, arguments, result); NoFn otherwise
    mu,               \* Client.mu: the goroutine that holds it (NoHolder: free),
                      \* where the steps of Lock and Unlock are told apart
    responseMu        \* Client.responseMu: the goroutines that hold it, each
                      \* with its mode (Lock or RLock), likewise

vars == <<conn, isConnected, lastReqID, pendingRequests, muHeld, chanbuf,
          sock, reader, call, wire, ev, jwtToken, assigned, authenticated,
          unit, mu, responseMu>>

Calls == 1..MaxCalls
Conns == 1..MaxConns

-----------------------------------------------------------------------------
(* Data *)

\* RPCResponse.  Data is abstracted to the keys the callers look for: the
\* key of the step (challenge_message, success = true, transactions) and
\* jwt_token ("full"), the key of the step alone ("notoken"), or neither
\* ("empty").
Payloads == {"full", "notoken", "empty"}

\* data["challenge_message"].(string), data["success"].(bool) and true,
\* data["transactions"].([]interface{})
HasStepKey(data) == data \in {"full", "notoken"}

\* verifyResponse.Data["jwt_token"].(string)
HasToken(data) == data = "full"

NoResp == [RequestID |-> 0, Method |-> "", Data |-> ""]

RPCResponse(id, method, data) == [RequestID |-> id, Method |-> method, Data |-> data]

\* A JSON number n/2 as decoded into float64 (message.Res[0].(float64)):
\* the model sends whole and half numbers.
ToUint64(n) == n \div 2

\* A caller goroutine: its operation, its position, and the locals of
\* sendRequest and Authenticate (method, requestID, responseChan, the
\* challenge response).  After its return only the request ID and the error
\* of its last request are kept.
NoCall == [op |-> "none", pc |-> "idle", method |-> "", id |-> 0, ch |-> 0,
           resp |-> NoResp, err |-> ""]

\* The events recorded in ev.
NoEv == [kind |-> "none"]

\* sendRequest (fn "sendRequest"), the auth_verify exchange of Authenticate
\* (fn "auth_verify") or Transfer before any request (fn "Transfer") returned
\* in goroutine c: the request ID, the returned response and error, and
\* what the operation reports to its caller ("" when it goes on).
ReturnEv(fn, c, id, resp, err, out) ==
    [kind |-> "return", fn |-> fn, c |-> c, id |-> id, resp |-> resp,
     err |-> err, out |-> out]

\* Reader k looked up request ID rid; hit: an entry was found.
DispatchEv(k, rid, hit) == [kind |-> "dispatch", k |-> k, rid |-> rid, hit |-> hit]

NoReader == [pc |-> "none", on |-> 0, rid |-> 0]

\* No sequential function is examined.
NoFn == [name |-> "none"]

\* The goroutines that take the locks, and no goroutine.
NoHolder == [kind |-> "none", n |-> 0]

Caller(c) == [kind |-> "caller", n |-> c]

Reader(k) == [kind |-> "reader", n |-> k]

-----------------------------------------------------------------------------
(* Signatures and envelopes *)

\* Client.privateKey, the key NewClient parsed
privateKey == "privateKey"

\* eip712Signer := NewEIP712Signer(privateKey): the key the signer holds
eip712SignerKey == privateKey

\* signMessage: Keccak256 of the serialized request, signed with
\* c.privateKey
signMessage == [scheme |-> "generic", key |-> privateKey]

\* c.eip712Signer.SignChallenge(...): the typed-data signature
SignChallenge == [scheme |-> "eip712", key |-> eip712SignerKey]

\* RPCMessage{Req: req, Sig: ...}: auth_verify carries the challenge
\* signature, every request of sendRequest the signature of signMessage.
Envelope(id, method) ==
    [id |-> id, method |-> method,
     sig |-> IF method = "auth_verify" THEN SignChallenge ELSE signMessage]

-----------------------------------------------------------------------------
(* The request-ID counter and the pending-request table *)

\* Faulty variant: the counter hands out its current value again
ReusedReqID(last) == IF last = 0 THEN 1 ELSE last

\* c.lastReqID.Add(1)
NextReqID(last) == last + 1

\* Faulty variant: the channel is not in the table when the envelope is
\* written
RegisterAfterWrite(table, id, ch) == table

\* c.pendingRequests[requestID] = responseChan
Register(table, id, ch) ==
    [k \in (DOMAIN table) \cup {id} |-> IF k = id THEN ch ELSE table[k]]

\* delete(c.pendingRequests, requestID)
Remove(table, id) == [k \in (DOMAIN table) \ {id} |-> table[k]]

\* Faulty variant: a clean-up that deletes nothing
KeepEntry(table, id) == table

\* sendRequest, write failed: the entry is deleted before the error returns
SendErrorCleanup(table, id) == Remove(table, id)

\* sendRequest, timer fired: the entry is deleted before the error returns
TimeoutCleanup(table, id) == Remove(table, id)

\* listenForResponses, "Clean up"
ReaderCleanupTable(table, id) == Remove(table, id)

\* Faulty variant: the response goes to the oldest pending request
OldestPending(table, rid) ==
    IF DOMAIN table = {} THEN 0
    ELSE table[CHOOSE k \in DOMAIN table : \A j \in DOMAIN table : k <= j]

\* ch, exists := c.pendingRequests[response.RequestID]  (0: no entry)
LookupChan(table, rid) == IF rid \in DOMAIN table THEN table[rid] ELSE 0

\* Faulty variant: a response whose method is "error" is logged and dropped
DropErrorResponse(buf, ch, resp) ==
    IF resp.Method = "error" \/ ch \notin DOMAIN buf THEN buf
    ELSE IF buf[ch] # <<>> THEN buf
    ELSE [buf EXCEPT ![ch] = <<resp>>]

\* select { case ch <- response: default: } on a channel of capacity 1.
\* A channel whose caller has returned is garbage: nothing reads it again,
\* and the model keeps no buffer for it.
TrySend(buf, ch, resp) ==
    IF ch \notin DOMAIN buf \/ buf[ch] # <<>> THEN buf
    ELSE [buf EXCEPT ![ch] = <<resp>>]

\* responseChan := make(chan *RPCResponse, 1): the n-th channel made is n
MakeChan(buf, ch) == [h \in (DOMAIN buf) \cup {ch} |-> IF h = ch THEN <<>> ELSE buf[h]]

\* The caller returns and drops its channel.
DropChan(buf, ch) == [h \in (DOMAIN buf) \ {ch} |-> buf[h]]

-----------------------------------------------------------------------------
(* State after NewClient *)

Init ==
    /\ conn = 0
    /\ isConnected = FALSE
    /\ lastReqID = 0
    /\ pendingRequests = <<>>
    /\ muHeld = FALSE
    /\ chanbuf = <<>>
    /\ sock = [k \in Conns |-> "undialled"]
    /\ reader = [k \in Conns |-> NoReader]
    /\ call = [c \in Calls |-> NoCall]
    /\ wire = {}
    /\ ev = NoEv
    /\ jwtToken = 0
    /\ assigned = <<>>
    /\ authenticated = {}
    /\ unit = NoFn
    /\ mu = NoHolder
    /\ responseMu = {}

Dialled == {k \in Conns : sock[k] # "undialled"}

-----------------------------------------------------------------------------
(* Connection manager: Connect, Close, the socket *)

\* Connect, dial succeeded: c.conn = conn; c.isConnected.Store(true);
\* go c.listenForResponses().  The k-th dial yields socket k, and the new
\* goroutine blocks in c.conn.ReadJSON on it.
Dial(k) ==
    /\ k \in Conns
    /\ sock' = [sock EXCEPT ![k] = "open"]
    /\ conn' = k
    /\ isConnected' = TRUE
    /\ reader' = [reader EXCEPT ![k] = [pc |-> "read", on |-> k, rid |-> 0]]

\* Connect called by a goroutine that is not one of the callers
Connect ==
    /\ Dial(Cardinality(Dialled) + 1)
    /\ ev' = NoEv
    /\ UNCHANGED <<lastReqID, pendingRequests, muHeld, chanbuf, call, wire,
                   jwtToken, authenticated, unit, mu, responseMu, assigned>>

\* Faulty variant: the flag is set although the dial failed
MarkConnected(flag) == TRUE

\* Connect, dial failed: the error is returned, the flag is not written
FlagAfterFailedDial(flag) == flag

\* Connect, the node cannot be reached: one Dial, then
\* return fmt.Errorf("failed to connect to WebSocket: %w", err)
ConnectFail ==
    /\ ~isConnected
    /\ isConnected' = FlagAfterFailedDial(isConnected)
    /\ ev' = ReturnEv("Connect", 0, 0, NoResp, "connect", "failed to connect to WebSocket")
    /\ UNCHANGED <<conn, lastReqID, pendingRequests, muHeld, chanbuf, sock,
                   reader, call, wire, jwtToken, authenticated, unit, mu, responseMu, assigned>>

\* main: the client made by NewClient is connected before the server starts
MainConnect ==
    /\ conn = 0
    /\ Connect

\* EnsureConnected, called by the HTTP handler before every transfer: a
\* client whose flag is false is connected again.
EnsureConnected ==
    /\ conn # 0
    /\ ~isConnected
    /\ Connect

\* conn.Close() of the websocket: the socket is closed from now on
CloseSocket(s, k) == IF k = 0 THEN s ELSE [s EXCEPT ![k] = "closed"]

\* What conn.Close() returns: closing a connection the client has already
\* closed is an error of the network layer ("use of closed network
\* connection"); a nil conn is not closed at all.
CloseErr(s, k) == IF k # 0 /\ s[k] = "closed" THEN "close" ELSE ""

\* Close: c.isConnected.Store(false); if c.conn != nil { return c.conn.Close() }
Close ==
    /\ isConnected' = FALSE
    /\ sock' = CloseSocket(sock, conn)
    /\ ev' = ReturnEv("Close", 0, 0, NoResp, CloseErr(sock, conn), "")
    /\ UNCHANGED <<conn, lastReqID, pendingRequests, muHeld, chanbuf, reader,
                   call, wire, jwtToken, authenticated, unit, mu, responseMu, assigned>>

\* The environment: the peer or the network ends socket k; reads and writes
\* on it fail from now on.
Break(k) ==
    /\ sock[k] = "open"
    /\ sock' = [sock EXCEPT ![k] = "broken"]
    /\ ev' = NoEv
    /\ UNCHANGED <<conn, isConnected, lastReqID, pendingRequests, muHeld,
                   chanbuf, reader, call, wire, jwtToken,
                   authenticated, unit, mu, responseMu, assigned>>

-----------------------------------------------------------------------------
(* The reader loop: listenForResponses *)

\* The well-formed responses the node may send: for a request ID assigned
\* so far, written as the JSON number n/2 (whole or half), either a reply
\* whose data holds what the caller looks for or an "error".
Frames ==
    [num : 2 .. (2 * lastReqID + 1), method : {"reply"}, data : {"full"}]
    \cup [num : 2 .. (2 * lastReqID + 1), method : {"error"}, data : {"empty"}]

\* Every well-formed response: the method of a reply or "error", with any
\* data.
AnyFrames ==
    [num : 2 .. (2 * lastReqID + 1), method : {"reply", "error"}, data : Payloads]

\* response := &RPCResponse{RequestID: uint64(requestID), ...}
Decode(f) == RPCResponse(ToUint64(f.num), f.method, f.data)

\* ReadJSON returned a response.  Under RLock it is offered to the channel
\* registered for its ID; the clean-up follows under Lock.  With no entry
\* for the ID the clean-up deletes nothing (an ID is registered once, when
\* it is assigned), so the loop is back at ReadJSON.
Dispatch(k, f) ==
    LET response == Decode(f)
        ch == LookupChan(pendingRequests, response.RequestID)
    IN  /\ chanbuf' = TrySend(chanbuf, ch, response)
        /\ reader' = IF ch = 0
                     THEN [reader EXCEPT ![k].on = conn]
                     ELSE [reader EXCEPT ![k].pc = "cleanup",
                                         ![k].rid = response.RequestID]
        /\ ev' = DispatchEv(k, response.RequestID, ch # 0)
        /\ UNCHANGED <<conn, isConnected, lastReqID, pendingRequests, muHeld,
                       sock, call, wire, jwtToken,
                   authenticated, unit, mu, responseMu, assigned>>

\* The loop reads one of the responses of Frames.
ReaderRead(k) ==
    /\ reader[k].pc = "read"
    /\ sock[reader[k].on] = "open"
    /\ \E f \in Frames : Dispatch(k, f)

\* The loop reads any well-formed response.
ReaderReadAny(k) ==
    /\ reader[k].pc = "read"
    /\ sock[reader[k].on] = "open"
    /\ \E f \in AnyFrames : Dispatch(k, f)

\* ReadJSON returned a frame with fewer than four res elements or with an
\* element of the wrong type: continue, and c.conn is evaluated again.
ReaderSkip(k) ==
    /\ reader[k].pc = "read"
    /\ sock[reader[k].on] = "open"
    /\ reader' = [reader EXCEPT ![k].on = conn]
    /\ ev' = NoEv
    /\ UNCHANGED <<conn, isConnected, lastReqID, pendingRequests, muHeld,
                   chanbuf, sock, call, wire, jwtToken,
                   authenticated, unit, mu, responseMu, assigned>>

\* "Clean up": delete(c.pendingRequests, response.RequestID), then the next
\* iteration evaluates c.conn again.
ReaderCleanup(k) ==
    /\ reader[k].pc = "cleanup"
    /\ pendingRequests' = ReaderCleanupTable(pendingRequests, reader[k].rid)
    /\ reader' = [reader EXCEPT ![k].pc = "read", ![k].on = conn, ![k].rid = 0]
    /\ ev' = NoEv
    /\ UNCHANGED <<conn, isConnected, lastReqID, muHeld, chanbuf, sock, call,
                   wire, jwtToken, authenticated, unit, mu, responseMu, assigned>>

\* ReadJSON returned an error: break, and the deferred function starts with
\* c.isConnected.Store(false)
ReaderReadErr(k) ==
    /\ reader[k].pc = "read"
    /\ sock[reader[k].on] \in {"broken", "closed"}
    /\ isConnected' = FALSE
    /\ reader' = [reader EXCEPT ![k].pc = "closing"]
    /\ ev' = NoEv
    /\ UNCHANGED <<conn, lastReqID, pendingRequests, muHeld, chanbuf, sock,
                   call, wire, jwtToken, authenticated, unit, mu, responseMu, assigned>>

\* The deferred function ends: if c.conn != nil { c.conn.Close() }
ReaderClose(k) ==
    /\ reader[k].pc = "closing"
    /\ sock' = CloseSocket(sock, conn)
    /\ reader' = [reader EXCEPT ![k].pc = "exited"]
    /\ ev' = NoEv
    /\ UNCHANGED <<conn, isConnected, lastReqID, pendingRequests, muHeld,
                   chanbuf, call, wire, jwtToken, authenticated, unit, mu, responseMu, assigned>>

-----------------------------------------------------------------------------
(* RPC correlator: sendRequest *)

\* Caller slots are taken in order (the slots are interchangeable).
Free(c) ==
    /\ call[c].pc = "idle"
    /\ IF c = 1 THEN TRUE ELSE call[c - 1].pc # "idle"

\* The goroutine after its return.
Returned(c, id, err) ==
    [op |-> call[c].op, pc |-> "done", method |-> "", id |-> id, ch |-> 0,
     resp |-> NoResp, err |-> err]

\* sendRequest up to the registration: requestID := c.lastReqID.Add(1); the
\* envelope is signed (signing a well-formed request with the key NewClient
\* parsed does not fail); the channel is made (the n-th channel is n) and
\* registered under responseMu.
SendRequestBegin(c, op, method) ==
    LET requestID == NextReqID(lastReqID)
        responseChan == Len(assigned) + 1
    IN  /\ lastReqID' = requestID
        /\ assigned' = Append(assigned, requestID)
        /\ chanbuf' = MakeChan(chanbuf, responseChan)
        /\ pendingRequests' = Register(pendingRequests, requestID, responseChan)
        /\ call' = [call EXCEPT ![c] = [op |-> op, pc |-> "write", method |-> method,
                                         id |-> requestID, ch |-> responseChan,
                                         resp |-> NoResp, err |-> ""]]
        /\ ev' = NoEv

\* The methods sent through sendRequest (auth_verify is written by
\* Authenticate itself).
SendRequestMethods == {"auth_request", "get_assets", "get_ledger_balances", "transfer"}

\* What the caller of sendRequest makes of its error.
FailedOut(method) ==
    IF method = "transfer" THEN "transfer failed"
    ELSE IF method = "get_assets" THEN "get_assets failed"
    ELSE IF method = "get_ledger_balances" THEN "get_ledger_balances failed"
    ELSE "auth_request failed"

\* c.mu.Lock(); err = c.conn.WriteJSON(message); c.mu.Unlock(), and the
\* error path: delete the entry, return nil and the send error.  WriteJSON
\* on a nil conn panics with mu locked.
SendRequestWrite(c) ==
    /\ call[c].pc = "write"
    /\ call[c].method \in SendRequestMethods
    /\ ~muHeld
    /\ IF conn = 0
       THEN /\ muHeld' = TRUE
            /\ call' = [call EXCEPT ![c].pc = "panicked"]
            /\ ev' = NoEv
            /\ UNCHANGED <<wire, pendingRequests, chanbuf>>
       ELSE IF sock[conn] = "open"
       THEN /\ wire' = wire \cup {Envelope(call[c].id, call[c].method)}
            /\ call' = [call EXCEPT ![c].pc = "wait"]
            /\ ev' = NoEv
            /\ UNCHANGED <<muHeld, pendingRequests, chanbuf>>
       ELSE /\ pendingRequests' = SendErrorCleanup(pendingRequests, call[c].id)
            /\ chanbuf' = DropChan(chanbuf, call[c].ch)
            /\ call' = [call EXCEPT ![c] = Returned(c, call[c].id, "send")]
            /\ ev' = ReturnEv("sendRequest", c, call[c].id, NoResp, "send",
                              FailedOut(call[c].method))
            /\ UNCHANGED <<muHeld, wire>>
    /\ UNCHANGED <<conn, isConnected, lastReqID, sock, reader, assigned, jwtToken,
                   authenticated, unit, mu, responseMu>>

\* parseTransferResult: no "transactions" list in the data is an error
ParseTransferOut(data) ==
    IF HasStepKey(data) THEN "ok" ELSE "failed to parse transfer result"

\* Faulty variant: the result of an earlier, successful check is reused
ReuseEarlierCheck(data) == "ok"

\* GetAssets and GetFaucetBalance parse the data of their response, and
\* the operational check looks for the configured asset and a sufficient
\* balance in it.
OperationalOut(data) ==
    IF HasStepKey(data) THEN "ok" ELSE "service not operational"

\* The step of the token request that follows a successful operation.
NextStage(method) ==
    IF method = "auth_verify" THEN "assets"
    ELSE IF method = "get_assets" THEN "balances"
    ELSE "transfer"

\* case response := <-responseChan: return response, nil.  Transfer then
\* parses the data and returns; Authenticate goes on to its challenge; the
\* operational check of a token request goes on to its next call.
SendRequestRecv(c) ==
    /\ call[c].pc = "wait"
    /\ call[c].method \in SendRequestMethods
    /\ chanbuf[call[c].ch] # <<>>
    /\ LET response == Head(chanbuf[call[c].ch]) IN
       IF call[c].method = "transfer"
       THEN /\ call' = [call EXCEPT ![c] = Returned(c, call[c].id, "")]
            /\ ev' = ReturnEv("sendRequest", c, call[c].id, response, "",
                              ParseTransferOut(response.Data))
       ELSE IF call[c].method = "auth_request"
       THEN /\ call' = [call EXCEPT ![c].pc = "challenge", ![c].ch = 0,
                                     ![c].resp = response]
            /\ ev' = ReturnEv("sendRequest", c, call[c].id, response, "", "")
       ELSE IF OperationalOut(response.Data) = "ok"
       THEN /\ call' = [call EXCEPT ![c].pc = NextStage(call[c].method),
                                     ![c].method = "", ![c].ch = 0]
            /\ ev' = ReturnEv("sendRequest", c, call[c].id, response, "", "")
       ELSE /\ call' = [call EXCEPT ![c] = Returned(c, call[c].id, "")]
            /\ ev' = ReturnEv("sendRequest", c, call[c].id, response, "",
                              OperationalOut(response.Data))
    /\ chanbuf' = DropChan(chanbuf, call[c].ch)
    /\ UNCHANGED <<conn, isConnected, lastReqID, pendingRequests, muHeld, sock,
                   reader, wire, jwtToken, authenticated, unit, mu, responseMu, assigned>>

\* Faulty variant: the timeout path also returns what the channel holds
StaleResponseOnTimeout(buf) ==
    [resp |-> IF buf = <<>> THEN NoResp ELSE Head(buf), err |-> "timeout"]

\* return nil, fmt.Errorf("request timeout")
TimeoutReturn(buf) == [resp |-> NoResp, err |-> "timeout"]

\* case <-time.After(RESPONSE_TIMEOUT_SEC * time.Second): the entry is
\* deleted and "request timeout" returned.  Time is abstract: the timer may
\* fire at any moment of the wait, also when a response is in the channel.
SendRequestTimeout(c) ==
    /\ call[c].pc = "wait"
    /\ call[c].method \in SendRequestMethods
    /\ pendingRequests' = TimeoutCleanup(pendingRequests, call[c].id)
    /\ chanbuf' = DropChan(chanbuf, call[c].ch)
    /\ LET r == TimeoutReturn(chanbuf[call[c].ch]) IN
       /\ call' = [call EXCEPT ![c] = Returned(c, call[c].id, r.err)]
       /\ ev' = ReturnEv("sendRequest", c, call[c].id, r.resp, r.err,
                         FailedOut(call[c].method))
    /\ UNCHANGED <<conn, isConnected, lastReqID, muHeld, sock, reader, wire,
                   jwtToken, authenticated, unit, mu, responseMu, assigned>>

-----------------------------------------------------------------------------
(* Transfer *)

\* Faulty variant: the flag is not consulted
SkipConnectedCheck(flag) == TRUE

\* if !c.isConnected.Load() { return nil, "client is not connected" }
PassesConnectedCheck(flag) == flag

\* Transfer up to the registration of its request
Transfer(c) ==
    /\ Free(c)
    /\ IF PassesConnectedCheck(isConnected)
       THEN SendRequestBegin(c, "transfer", "transfer")
       ELSE /\ call' = [call EXCEPT ![c] = [NoCall EXCEPT !.op = "transfer",
                                                          !.pc = "done"]]
            /\ ev' = ReturnEv("Transfer", c, 0, NoResp, "",
                              "client is not connected")
            /\ UNCHANGED <<lastReqID, assigned, chanbuf, pendingRequests>>
    /\ UNCHANGED <<conn, isConnected, muHeld, sock, reader, wire, jwtToken,
                   authenticated, unit, mu, responseMu>>

-----------------------------------------------------------------------------
(* Authenticate *)

\* Step 1: c.sendRequest("auth_request", ...); the connectivity flag is not
\* read.
Authenticate(c) ==
    /\ Free(c)
    /\ SendRequestBegin(c, "auth", "auth_request")
    /\ UNCHANGED <<conn, isConnected, muHeld, sock, reader, wire, jwtToken,
                   authenticated, unit, mu, responseMu>>

\* challengeResponse.Data["challenge_message"]: the two kinds of data that
\* hold the key hold different challenge strings.
ChallengeMessage(data) ==
    IF data = "full" THEN "challenge A"
    ELSE IF data = "notoken" THEN "challenge B"
    ELSE ""

\* Faulty variant: Authenticate goes on whatever the answer holds
AnyAnswer(response) == TRUE

\* challengeMessage, ok := challengeResponse.Data["challenge_message"].(string)
ChallengeObtained(response) == HasStepKey(response.Data)

\* verifyData := map[string]interface{}{"challenge": challengeMessage};
\* req := []interface{}{requestID, "auth_verify", verifyData, timestamp}
VerifyEnvelope(id, challengeResponse) ==
    [id |-> id, method |-> "auth_verify", sig |-> SignChallenge,
     challenge |-> ChallengeMessage(challengeResponse.Data)]

\* challengeResponse.Data["challenge_message"].(string); step 2 signs the
\* challenge; step 3 takes the next request ID for auth_verify, makes its
\* channel and registers it; the challenge response is kept for verifyData.
AuthChallenge(c) ==
    /\ call[c].pc = "challenge"
    /\ IF ChallengeObtained(call[c].resp)
       THEN LET requestID == NextReqID(lastReqID)
                responseChan == Len(assigned) + 1
            IN  /\ lastReqID' = requestID
                /\ assigned' = Append(assigned, requestID)
                /\ chanbuf' = MakeChan(chanbuf, responseChan)
                /\ pendingRequests' = Register(pendingRequests, requestID, responseChan)
                /\ call' = [call EXCEPT ![c].pc = "write",
                                         ![c].method = "auth_verify",
                                         ![c].id = requestID,
                                         ![c].ch = responseChan]
                /\ ev' = NoEv
       ELSE /\ call' = [call EXCEPT ![c] = Returned(c, call[c].id, "")]
            /\ ev' = ReturnEv("Authenticate", c, call[c].id, NoResp, "",
                              "invalid challenge response format")
            /\ UNCHANGED <<lastReqID, assigned, chanbuf, pendingRequests>>
    /\ UNCHANGED <<conn, isConnected, muHeld, sock, reader, wire, jwtToken,
                   authenticated, unit, mu, responseMu>>

\* c.mu.Lock(); err = c.conn.WriteJSON(message); c.mu.Unlock(), and the
\* error path of auth_verify.
VerifyWrite(c) ==
    /\ call[c].pc = "write"
    /\ call[c].method = "auth_verify"
    /\ ~muHeld
    /\ IF conn = 0
       THEN /\ muHeld' = TRUE
            /\ call' = [call EXCEPT ![c].pc = "panicked"]
            /\ ev' = NoEv
            /\ UNCHANGED <<wire, pendingRequests, chanbuf>>
       ELSE IF sock[conn] = "open"
       THEN /\ wire' = wire \cup {VerifyEnvelope(call[c].id, call[c].resp)}
            /\ call' = [call EXCEPT ![c].pc = "wait"]
            /\ ev' = NoEv
            /\ UNCHANGED <<muHeld, pendingRequests, chanbuf>>
       ELSE /\ pendingRequests' = Remove(pendingRequests, call[c].id)
            /\ chanbuf' = DropChan(chanbuf, call[c].ch)
            /\ call' = [call EXCEPT ![c] = Returned(c, call[c].id, "send")]
            /\ ev' = ReturnEv("auth_verify", c, call[c].id, NoResp, "send",
                              "failed to send auth_verify")
            /\ UNCHANGED <<muHeld, wire>>
    /\ UNCHANGED <<conn, isConnected, lastReqID, sock, reader, assigned, jwtToken,
                   authenticated, unit, mu, responseMu>>

\* Faulty variant: only the success flag of the auth_verify response is read
SuccessFlagOnly(response) ==
    IF HasStepKey(response.Data) THEN "ok" ELSE "authentication failed"

\* The outcome of the auth_verify response: method "error", then the
\* success flag.
VerifyOut(response) ==
    IF response.Method = "error" THEN "auth_verify error"
    ELSE IF ~HasStepKey(response.Data) THEN "authentication failed"
    ELSE "ok"

\* jwtToken, ok := verifyResponse.Data["jwt_token"].(string);
\* if ok { c.jwtToken = jwtToken }, reached on success only
StoreToken(old, response) ==
    IF VerifyOut(response) = "ok" /\ HasToken(response.Data)
    THEN response.RequestID ELSE old

\* The handshake that returns success has authenticated the socket the
\* client holds.
AuthenticatedOn(set, k, response) ==
    IF VerifyOut(response) = "ok" THEN set \cup {k} ELSE set

\* case verifyResponse := <-responseChan; on success the token of the
\* response is stored (the token issued in answer to request n is n).
VerifyRecv(c) ==
    /\ call[c].pc = "wait"
    /\ call[c].method = "auth_verify"
    /\ chanbuf[call[c].ch] # <<>>
    /\ LET verifyResponse == Head(chanbuf[call[c].ch]) IN
       /\ call' = IF call[c].op = "request" /\ VerifyOut(verifyResponse) = "ok"
                  THEN [call EXCEPT ![c].pc = NextStage(call[c].method),
                                    ![c].method = "", ![c].ch = 0]
                  ELSE [call EXCEPT ![c] = Returned(c, call[c].id, "")]
       /\ ev' = ReturnEv("auth_verify", c, call[c].id, verifyResponse, "",
                         VerifyOut(verifyResponse))
       /\ jwtToken' = StoreToken(jwtToken, verifyResponse)
       /\ authenticated' = AuthenticatedOn(authenticated, conn, verifyResponse)
    /\ chanbuf' = DropChan(chanbuf, call[c].ch)
    /\ UNCHANGED <<conn, isConnected, lastReqID, pendingRequests, muHeld, sock,
                   reader, wire, assigned, unit, mu, responseMu>>

\* auth_verify, timer fired: the entry is deleted before the error returns
VerifyTimeoutCleanup(table, id) == Remove(table, id)

\* case <-time.After(...): the entry is deleted, "auth_verify timeout"
VerifyTimeout(c) ==
    /\ call[c].pc = "wait"
    /\ call[c].method = "auth_verify"
    /\ pendingRequests' = VerifyTimeoutCleanup(pendingRequests, call[c].id)
    /\ chanbuf' = DropChan(chanbuf, call[c].ch)
    /\ call' = [call EXCEPT ![c] = Returned(c, call[c].id, "timeout")]
    /\ ev' = ReturnEv("auth_verify", c, call[c].id, NoResp, "timeout",
                      "auth_verify timeout")
    /\ UNCHANGED <<conn, isConnected, lastReqID, muHeld, sock, reader, wire,
                   jwtToken, authenticated, unit, mu, responseMu, assigned>>

-----------------------------------------------------------------------------
(* The token request of the HTTP server: requestTokens *)

\* EnsureConnected, first step: the connectivity flag is read.  A connected
\* client passes; otherwise the client is connected and authenticated again.
RequestTokens(c) ==
    /\ Free(c)
    /\ call' = [call EXCEPT ![c] = [NoCall EXCEPT
                    !.op = "request",
                    !.pc = IF isConnected THEN "assets" ELSE "connect"]]
    /\ ev' = NoEv
    /\ UNCHANGED <<conn, isConnected, lastReqID, pendingRequests, muHeld,
                   chanbuf, sock, reader, wire, jwtToken, authenticated, unit, mu, responseMu,
                   assigned>>

\* EnsureConnected, reconnect: Connect to the reachable node
RequestConnect(c) ==
    /\ call[c].op = "request"
    /\ call[c].pc = "connect"
    /\ Dial(Cardinality(Dialled) + 1)
    /\ call' = [call EXCEPT ![c].pc = "authenticate"]
    /\ ev' = NoEv
    /\ UNCHANGED <<lastReqID, pendingRequests, muHeld, chanbuf, wire, jwtToken,
                   authenticated, unit, mu, responseMu, assigned>>

\* EnsureConnected, reconnect: Authenticate after the Connect
RequestAuthenticate(c) ==
    /\ call[c].op = "request"
    /\ call[c].pc = "authenticate"
    /\ SendRequestBegin(c, "request", "auth_request")
    /\ UNCHANGED <<conn, isConnected, muHeld, sock, reader, wire, jwtToken,
                   authenticated, unit, mu, responseMu>>

\* The request of each later step of the token request
StageMethod(pc) ==
    IF pc = "assets" THEN "get_assets"
    ELSE IF pc = "balances" THEN "get_ledger_balances"
    ELSE "transfer"

\* The client function of each later step
StageFn(pc) ==
    IF pc = "assets" THEN "GetAssets"
    ELSE IF pc = "balances" THEN "GetFaucetBalance"
    ELSE "Transfer"

\* EnsureOperational (GetAssets, then GetFaucetBalance) and Transfer: each
\* reads the connectivity flag and then calls sendRequest.
RequestCall(c) ==
    /\ call[c].op = "request"
    /\ call[c].pc \in {"assets", "balances", "transfer"}
    /\ IF PassesConnectedCheck(isConnected)
       THEN SendRequestBegin(c, "request", StageMethod(call[c].pc))
       ELSE /\ call' = [call EXCEPT ![c] = Returned(c, call[c].id, "")]
            /\ ev' = ReturnEv(StageFn(call[c].pc), c, 0, NoResp, "",
                              "client is not connected")
            /\ UNCHANGED <<lastReqID, assigned, chanbuf, pendingRequests>>
    /\ UNCHANGED <<conn, isConnected, muHeld, sock, reader, wire, jwtToken,
                   authenticated, unit, mu, responseMu>>

-----------------------------------------------------------------------------
(* The system *)

Next ==
    \/ MainConnect
    \/ EnsureConnected
    \/ Close
    \/ \E k \in Conns : Break(k)
    \/ \E k \in Conns : ReaderRead(k)
    \/ \E k \in Conns : ReaderSkip(k)
    \/ \E k \in Conns : ReaderCleanup(k)
    \/ \E k \in Conns : ReaderReadErr(k)
    \/ \E k \in Conns : ReaderClose(k)
    \/ \E c \in Calls : Transfer(c)
    \/ \E c \in Calls : SendRequestWrite(c)
    \/ \E c \in Calls : SendRequestRecv(c)
    \/ \E c \in Calls : SendRequestTimeout(c)
    \/ \E c \in Calls : Authenticate(c)
    \/ \E c \in Calls : AuthChallenge(c)
    \/ \E c \in Calls : VerifyWrite(c)
    \/ \E c \in Calls : VerifyRecv(c)
    \/ \E c \in Calls : VerifyTimeout(c)

Spec == Init /\ [][Next]_vars

-----------------------------------------------------------------------------
(* Properties *)

\* A sendRequest call returned in the step that led to this state
SendRequestReturned == ev.kind = "return" /\ ev.fn = "sendRequest"

\* The call whose request ID is id has returned "request timeout"
TimedOut(id) ==
    \E c \in Calls : call[c].pc = "done" /\ call[c].id = id /\ call[c].err = "timeout"

\* Every call has returned and no reader is between a delivery and its
\* clean-up.
Quiescent ==
    /\ \A c \in Calls : call[c].pc \in {"idle", "done"}
    /\ \A k \in Conns : reader[k].pc # "cleanup"

\* C1: a sendRequest call that returns a response returns one whose
\* request ID is the ID the call took from the counter, never the response
\* to another request.
C1_ResponseMatchesRequest ==
    (SendRequestReturned /\ ev.resp # NoResp) => ev.resp.RequestID = ev.id

\* A call gets its response while another request is pending
C1_Witness ==
    /\ SendRequestReturned
    /\ ev.resp # NoResp
    /\ \E id \in DOMAIN pendingRequests : id # ev.id

\* C2: every entry of the pending-request table is removed: once all calls
\* have returned and the readers have finished with the frames they read,
\* the table is empty.
C2_TableEmptyWhenQuiescent ==
    Quiescent => DOMAIN pendingRequests = {}

\* Three requests ended in the three ways (response, timeout, write
\* failure) and the table is empty.
C2_Witness ==
    /\ Quiescent
    /\ lastReqID = 3
    /\ \E c, d \in Calls : call[c].err = "timeout" /\ call[d].err = "send"
    /\ DOMAIN pendingRequests = {}

\* C3 as stated: at the moment sendRequest returns, on every exit path, the
\* table has no entry for the call's request ID.
C3_NoEntryAtReturn ==
    SendRequestReturned => ev.id \notin DOMAIN pendingRequests

\* C3, amended: when sendRequest returns a timeout or a send error the table
\* has no entry for the call's ID; when it returns a response, an entry
\* still there is the one the reader that delivered the response is about to
\* delete.
C3_NoEntryOutlivesCall ==
    SendRequestReturned =>
        IF ev.err # ""
        THEN ev.id \notin DOMAIN pendingRequests
        ELSE ev.id \in DOMAIN pendingRequests =>
                 \E k \in Conns : reader[k].pc = "cleanup" /\ reader[k].rid = ev.id

\* sendRequest has returned its response and the entry is still in the table
C3_Witness ==
    /\ SendRequestReturned
    /\ ev.err = ""
    /\ ev.id \in DOMAIN pendingRequests

\* C4: a sendRequest call returns exactly one of a response, a timeout
\* error and a send error, never a response together with an error; the
\* send error is returned by the step whose write failed, without a wait,
\* and a call returns once.
C4_ExactlyOneOutcome ==
    [][(ev'.kind = "return" /\ ev'.fn = "sendRequest") =>
          /\ (ev'.resp # NoResp) # (ev'.err # "")
          /\ ev'.err \in {"", "timeout", "send"}
          /\ ev'.err = "send" => call[ev'.c].pc = "write"
          /\ ev'.err # "send" => call[ev'.c].pc = "wait"
          /\ call'[ev'.c].pc \in {"done", "challenge"}]_vars

\* A write failed and sendRequest returned the send error
C4_Witness ==
    /\ SendRequestReturned
    /\ ev.err = "send"
    /\ ev.resp = NoResp

\* C5: the request IDs taken from the counter, by sendRequest and by the
\* auth_verify step, are pairwise distinct and increase in the order of
\* their assignment, and a new ID is never the ID of an entry that is still
\* in the table.
C5_FreshIncreasingIDs ==
    /\ [](\A i, j \in 1 .. Len(assigned) : i < j => assigned[i] < assigned[j])
    /\ [][Len(assigned') > Len(assigned) =>
             assigned'[Len(assigned')] \notin DOMAIN pendingRequests]_vars

\* The auth_verify step took an ID after two sendRequest calls did, and the
\* earlier requests are still pending.
C5_Witness ==
    /\ Len(assigned) = 3
    /\ \E c \in Calls : call[c].method = "auth_verify" /\ call[c].id = 3
    /\ Cardinality(DOMAIN pendingRequests) >= 2

\* C6: a call that gets no response before its timeout returns the timeout
\* error and no response; a response that arrives later for its ID finds
\* no entry, is handed to no channel, and leaves the reader at its next
\* read.
C6_LateResponseDiscarded ==
    /\ (SendRequestReturned /\ ev.err = "timeout") =>
           ev.resp = NoResp /\ ev.id \notin DOMAIN pendingRequests
    /\ (ev.kind = "dispatch" /\ TimedOut(ev.rid)) =>
           /\ ~ev.hit
           /\ reader[ev.k].pc = "read"
           /\ \A ch \in DOMAIN chanbuf :
                 chanbuf[ch] # <<>> => Head(chanbuf[ch]).RequestID # ev.rid

\* The reader has read a response for a request that timed out, while
\* another call waits for its own response.
C6_Witness ==
    /\ ev.kind = "dispatch"
    /\ TimedOut(ev.rid)
    /\ \E c \in Calls : call[c].pc = "wait"
    /\ sock[reader[ev.k].on] = "open"

\* C7 as stated: in every reachable state IsConnected() is true exactly
\* when the client's socket is open and its reader loop is running.  (A
\* socket the peer has ended counts as open until the client closes it.)
C7_FlagIffOpenAndReading ==
    isConnected <=> (/\ conn # 0
                      /\ sock[conn] # "closed"
                      /\ \E k \in Conns : reader[k].pc \in {"read", "cleanup"})

\* C8 as stated: when the write of an envelope fails, in sendRequest or in
\* the auth_verify step, the connectivity flag is false by the time the call
\* returns its send error.
C8_FlagFalseAfterWriteError ==
    (ev.kind = "return" /\ ev.err = "send") => ~isConnected

\* C9 as stated: after a read error the loop has stopped, the socket it
\* read is closed and IsConnected() is false, until Connect is called
\* again.
C9_ReadErrorClosesSocket ==
    \A k \in Conns :
        reader[k].pc = "exited" =>
            /\ sock[reader[k].on] = "closed"
            /\ conn = reader[k].on => ~isConnected

\* C10: Transfer on a client whose flag is false returns the not-connected
\* error in that step: it takes no request ID, adds no table entry, writes
\* nothing and does not wait.
C10_TransferRefusedWhenDisconnected ==
    [][\A c \in Calls :
          (call[c].pc = "idle" /\ call'[c].op = "transfer" /\ ~isConnected) =>
              /\ call'[c].pc = "done"
              /\ ev' = ReturnEv("Transfer", c, 0, NoResp, "", "client is not connected")
              /\ lastReqID' = lastReqID
              /\ pendingRequests' = pendingRequests
              /\ chanbuf' = chanbuf
              /\ wire' = wire]_vars

\* Transfer was refused on a client that lost its connection while another
\* request was pending.
C10_Witness ==
    /\ ev.kind = "return"
    /\ ev.fn = "Transfer"
    /\ ev.out = "client is not connected"
    /\ conn # 0
    /\ DOMAIN pendingRequests # {}

\* C13 as stated: every successful Connect opened one socket and started one
\* reader loop, and at any time at most one reader loop consumes the inbound
\* frames of the client, also after a Close or a connection loss followed
\* by another Connect.
C13_OneReaderPerClient ==
    /\ \A k \in Conns : (sock[k] # "undialled") <=> (reader[k].pc # "none")
    /\ Cardinality({k \in Conns : reader[k].pc \in {"read", "cleanup"}
                                /\ sock[reader[k].on] = "open"}) <= 1

\* C14 as stated: Close sets the flag false and closes the socket, and a
\* Close of an already closed client returns no error.
C14_CloseIdempotent ==
    (ev.kind = "return" /\ ev.fn = "Close") =>
        /\ ~isConnected
        /\ conn # 0 => sock[conn] = "closed"
        /\ ev.err = ""

\* C16 as stated: a client that has been disconnected, by Close or by a
\* read failure, holds no session credential.
C16_CredentialClearedOnDisconnect ==
    (conn # 0 /\ ~isConnected) => jwtToken = 0

\* C20 as stated: auth_verify carries the typed-data signature made with
\* the key of the authentication identity and never one made with the key
\* that signs the transfers; a transfer carries the generic signature made
\* with the transaction-signing key and never one made with the
\* authentication key.
C20_KeySeparation ==
    \A w \in wire :
        /\ w.method = "auth_verify" =>
               /\ w.sig = SignChallenge
               /\ w.sig.key # signMessage.key
        /\ w.method = "transfer" =>
               /\ w.sig = signMessage
               /\ w.sig.key # SignChallenge.key

-----------------------------------------------------------------------------
(* Transfers on a connection to a node that may be unreachable *)

NextConn ==
    \/ MainConnect
    \/ EnsureConnected
    \/ ConnectFail
    \/ Close
    \/ \E k \in Conns : Break(k)
    \/ \E k \in Conns : ReaderRead(k)
    \/ \E k \in Conns : ReaderSkip(k)
    \/ \E k \in Conns : ReaderCleanup(k)
    \/ \E k \in Conns : ReaderReadErr(k)
    \/ \E k \in Conns : ReaderClose(k)
    \/ \E c \in Calls : Transfer(c)
    \/ \E c \in Calls : SendRequestWrite(c)
    \/ \E c \in Calls : SendRequestRecv(c)
    \/ \E c \in Calls : SendRequestTimeout(c)

ConnSpec == Init /\ [][NextConn]_vars

\* C15: when the node cannot be reached, Connect returns the connection
\* error after its one dial and leaves the client as it was: the flag is
\* still false, c.conn and the sockets are unchanged and no reader has been
\* started.
C15_FailedConnectChangesNothing ==
    [][(ev'.kind = "return" /\ ev'.fn = "Connect" /\ ev'.err # "") =>
          /\ ~isConnected'
          /\ UNCHANGED <<conn, sock, reader, isConnected>>]_vars

\* A reconnect failed after the connection was lost and its reader exited
C15_Witness ==
    /\ ev.kind = "return"
    /\ ev.fn = "Connect"
    /\ ev.err = "connect"
    /\ conn # 0
    /\ reader[conn].pc = "exited"

-----------------------------------------------------------------------------
(* Concurrent handshakes on one connection, with a node that may answer     *)
(* anything well-formed                                                     *)

NextAuth ==
    \/ MainConnect
    \/ \E k \in Conns : Break(k)
    \/ \E k \in Conns : ReaderReadAny(k)
    \/ \E k \in Conns : ReaderCleanup(k)
    \/ \E k \in Conns : ReaderReadErr(k)
    \/ \E k \in Conns : ReaderClose(k)
    \/ \E c \in Calls : Authenticate(c)
    \/ \E c \in Calls : SendRequestWrite(c)
    \/ \E c \in Calls : SendRequestRecv(c)
    \/ \E c \in Calls : SendRequestTimeout(c)
    \/ \E c \in Calls : AuthChallenge(c)
    \/ \E c \in Calls : VerifyWrite(c)
    \/ \E c \in Calls : VerifyRecv(c)
    \/ \E c \in Calls : VerifyTimeout(c)

AuthSpec == Init /\ [][NextAuth]_vars

\* The auth_verify exchange of Authenticate returned in the step that led to
\* this state
VerifyReturned == ev.kind = "return" /\ ev.fn = "auth_verify"

\* C17: Authenticate returns success only if the answer to auth_request
\* carried a string challenge and the answer to auth_verify has a method
\* other than "error" and a success flag that is true; without a challenge,
\* with the method "error", or with a missing or false success flag it
\* returns an authentication error.
C17_SuccessOnlyAfterChallengeAndVerify ==
    /\ []((VerifyReturned /\ ev.err = "") =>
            /\ (ev.out = "ok") <=>
                   (ev.resp.Method # "error" /\ HasStepKey(ev.resp.Data))
            /\ ev.out \in {"ok", "auth_verify error", "authentication failed"})
    /\ [][\A c \in Calls :
             call[c].pc = "challenge" =>
                 /\ call'[c].method = "auth_verify" => HasStepKey(call[c].resp.Data)
                 /\ (call'[c] # call[c] /\ ~HasStepKey(call[c].resp.Data)) =>
                        /\ call'[c].pc = "done"
                        /\ ev'.out = "invalid challenge response format"]_vars

\* auth_verify was answered with the method "error" and a true success
\* flag, and Authenticate returned the error.
C17_Witness ==
    /\ VerifyReturned
    /\ ev.resp.Method = "error"
    /\ HasStepKey(ev.resp.Data)
    /\ ev.out = "auth_verify error"

\* C18: when auth_request or auth_verify gets no response within the
\* timeout, Authenticate returns a timeout error and the table has no entry
\* for the request of that step.
C18_AuthTimeoutReleasesEntry ==
    (ev.kind = "return" /\ ev.err = "timeout" /\ call[ev.c].op = "auth") =>
        /\ call[ev.c].pc = "done"
        /\ ev.id \notin DOMAIN pendingRequests
        /\ ev.out = IF ev.fn = "auth_verify" THEN "auth_verify timeout"
                    ELSE "auth_request failed"

\* auth_verify timed out while the other handshake is still waiting
C18_Witness ==
    /\ VerifyReturned
    /\ ev.err = "timeout"
    /\ \E c \in Calls : call[c].pc = "wait"

\* C19 as stated: whenever Authenticate returns success, the stored
\* credential is the token returned in the auth_verify response of that
\* handshake.
C19_StoredTokenIsHandshakeToken ==
    (VerifyReturned /\ ev.out = "ok") => jwtToken = (IF HasToken(ev.resp.Data) THEN ev.resp.RequestID ELSE 0)

-----------------------------------------------------------------------------
(* The challenge of the handshake *)

\* The auth_verify envelopes written so far
VerifiesWritten(w) == {e \in w : e.method = "auth_verify"}

\* C36: an auth_verify is written only by a call that has received, for its
\* own auth_request, a response holding a challenge, and it carries that
\* challenge; a call whose auth_request failed, timed out or was answered
\* without a challenge has returned, and writes nothing more.
C36_VerifyCarriesOwnChallenge ==
    /\ [](\A c \in Calls :
            (SendRequestReturned /\ ev.c = c /\ call[c].pc = "challenge") =>
                /\ ev.resp.RequestID = ev.id
                /\ Envelope(ev.id, "auth_request") \in wire
                /\ call[c].resp = ev.resp)
    /\ [](\A c \in Calls :
            (/\ ev.kind = "return"
             /\ ev.c = c
             /\ call[c].op = "auth"
             /\ ev.out \in {"auth_request failed", "invalid challenge response format"})
            => call[c].pc = "done")
    /\ [][\A c \in Calls :
             /\ call[c].pc = "done" => call'[c] = call[c]
             /\ (call[c].pc = "challenge" /\ call'[c].method = "auth_verify") =>
                    /\ call[c].resp.Data \in {"full", "notoken"}
                    /\ call'[c].resp = call[c].resp
             /\ (call[c].method = "auth_verify" /\ call'[c].method = "auth_verify") =>
                    call'[c].resp = call[c].resp
             /\ (VerifiesWritten(wire') # VerifiesWritten(wire) /\ call'[c] # call[c]) =>
                    /\ call[c].method = "auth_verify"
                    /\ call[c].pc = "write"
                    /\ VerifiesWritten(wire') \ VerifiesWritten(wire) =
                           {[id |-> call[c].id, method |-> "auth_verify",
                             sig |-> SignChallenge,
                             challenge |->
                                 IF call[c].resp.Data = "full" THEN "challenge A"
                                 ELSE "challenge B"]}]_vars

\* Two handshakes received different challenges and each auth_verify was
\* written with its own
C36_Witness ==
    \E c, d \in Calls :
        /\ call[c].method = "auth_verify" /\ call[c].pc = "wait"
        /\ call[d].method = "auth_verify" /\ call[d].pc = "wait"
        /\ call[c].resp.Data # call[d].resp.Data
        /\ VerifyEnvelope(call[c].id, call[c].resp) \in wire
        /\ VerifyEnvelope(call[d].id, call[d].resp) \in wire

-----------------------------------------------------------------------------
(* Recovery: the server after its start-up, token requests, disconnects *)

\* main has run Connect, Authenticate and EnsureOperational without error:
\* requests 1 (auth_request), 2 (auth_verify), 3 (get_assets) and 4
\* (get_ledger_balances) were answered on socket 1, the token of request 2
\* is stored, and the reader of socket 1 has cleaned up and waits.
InitServing ==
    /\ conn = 1
    /\ isConnected = TRUE
    /\ lastReqID = 4
    /\ pendingRequests = <<>>
    /\ muHeld = FALSE
    /\ chanbuf = <<>>
    /\ sock = [k \in Conns |-> IF k = 1 THEN "open" ELSE "undialled"]
    /\ reader = [k \in Conns |-> IF k = 1 THEN [pc |-> "read", on |-> 1, rid |-> 0]
                                           ELSE NoReader]
    /\ call = [c \in Calls |-> NoCall]
    /\ wire = {Envelope(1, "auth_request"),
               VerifyEnvelope(2, RPCResponse(1, "reply", "full")),
               Envelope(3, "get_assets"), Envelope(4, "get_ledger_balances")}
    /\ ev = NoEv
    /\ jwtToken = 2
    /\ assigned = <<1, 2, 3, 4>>
    /\ authenticated = {1}
    /\ unit = NoFn
    /\ mu = NoHolder
    /\ responseMu = {}

\* No token request is being served.
NoRequestInFlight == \A c \in Calls : call[c].pc \in {"idle", "done"}

\* Some reader loop is running on an open socket.
SomeReaderReads ==
    \E k \in Conns :
        reader[k].pc \in {"read", "cleanup"} /\ sock[reader[k].on] = "open"

\* The node answers a request that waits for its response, once, with a
\* reply that holds what the caller looks for.
ReaderReadReply(k) ==
    /\ reader[k].pc = "read"
    /\ sock[reader[k].on] = "open"
    /\ \E c \in Calls :
        /\ call[c].pc = "wait"
        /\ chanbuf[call[c].ch] = <<>>
        /\ call[c].id \in DOMAIN pendingRequests
        /\ Dispatch(k, [num |-> 2 * call[c].id, method |-> "reply", data |-> "full"])

\* The timer of a request fires only when its response has not come and no
\* reader is left to deliver it (the node answers well within the timeout).
RequestTimeout(c) ==
    /\ ~SomeReaderReads
    /\ call[c].pc = "wait"
    /\ chanbuf[call[c].ch] = <<>>
    /\ \/ SendRequestTimeout(c)
       \/ VerifyTimeout(c)

\* Between two token requests the connection is closed by Close ...
CloseBetweenRequests ==
    /\ NoRequestInFlight
    /\ isConnected
    /\ Close

\* ... or lost.
BreakBetweenRequests ==
    /\ NoRequestInFlight
    /\ Break(conn)

\* A token request arrives when the client's flag tells the state of its
\* socket: connected and open, or disconnected after Close or after the
\* reader loop has seen the loss.
NextRequest(c) ==
    /\ isConnected => sock[conn] = "open"
    /\ RequestTokens(c)

NextRecovery ==
    \/ CloseBetweenRequests
    \/ BreakBetweenRequests
    \/ \E k \in Conns : ReaderReadReply(k)
    \/ \E k \in Conns : ReaderCleanup(k)
    \/ \E k \in Conns : ReaderReadErr(k)
    \/ \E k \in Conns : ReaderClose(k)
    \/ \E c \in Calls : NextRequest(c)
    \/ \E c \in Calls : RequestConnect(c)
    \/ \E c \in Calls : RequestAuthenticate(c)
    \/ \E c \in Calls : RequestCall(c)
    \/ \E c \in Calls : SendRequestWrite(c)
    \/ \E c \in Calls : SendRequestRecv(c)
    \/ \E c \in Calls : AuthChallenge(c)
    \/ \E c \in Calls : VerifyWrite(c)
    \/ \E c \in Calls : VerifyRecv(c)
    \/ \E c \in Calls : RequestTimeout(c)

RecoverySpec == InitServing /\ [][NextRecovery]_vars

\* C11: a token request made after the connection was closed or lost, with
\* the node reachable and answering, returns success, and the client is
\* connected when it returns.
C11_RequestRecovers ==
    \A c \in Calls :
        (/\ ev.kind = "return"
         /\ ev.c = c
         /\ call[c].op = "request"
         /\ call[c].pc = "done") => (ev.out = "ok" /\ ev.err = "" /\ isConnected)

\* C12: a get_assets, get_ledger_balances or transfer request is written
\* only on a socket on which a handshake has succeeded.
C12_NoRequestBeforeAuthentication ==
    [][\A c \in Calls :
          (/\ call[c].pc = "write"
           /\ call[c].method \in {"get_assets", "get_ledger_balances", "transfer"}
           /\ call'[c].pc = "wait")
          => conn \in authenticated]_vars

-----------------------------------------------------------------------------
(* Error responses *)

\* C25: a response read for a pending request is in that request's channel
\* after the dispatch, whatever its method, and a sendRequest call that
\* receives a response whose method is "error" returns that response, with
\* the call's own request ID, and no error.
C25_ErrorResponseDelivered ==
    /\ (ev.kind = "dispatch" /\ ev.hit) =>
           /\ ev.rid \in DOMAIN pendingRequests
           /\ pendingRequests[ev.rid] \in DOMAIN chanbuf =>
                  chanbuf[pendingRequests[ev.rid]] # <<>>
    /\ (SendRequestReturned /\ ev.resp.Method = "error") =>
           /\ ev.err = ""
           /\ ev.resp.RequestID = ev.id
           /\ call[ev.c].err = ""

\* sendRequest has returned a response whose method is "error"
C25_Witness ==
    /\ SendRequestReturned
    /\ ev.resp.Method = "error"
    /\ ev.err = ""

\* C29 as stated: an operation takes a request ID and goes on to the socket
\* write only when the connectivity flag was true as it started.
C29_FlagReadBeforeIO ==
    [][\A c \in Calls :
          (call[c].pc = "idle" /\ call'[c].pc = "write") => isConnected]_vars

\* C30 as stated: the exit of a reader loop whose read failed on a socket
\* that is no longer the client's changes neither the connectivity flag nor
\* the state of the client's socket.
C30_StaleReaderExitHarmless ==
    [][\A k \in Conns :
          (/\ reader[k].pc \in {"read", "closing"}
           /\ reader'[k].pc \in {"closing", "exited"}
           /\ reader[k].on # conn)
          => (isConnected' = isConnected /\ sock'[conn] = sock[conn])]_vars

-----------------------------------------------------------------------------
(* The wait handle: registration, single delivery *)

C32_SecondResponseDiscarded ==
    /\ [](\A ch \in DOMAIN chanbuf : Len(chanbuf[ch]) <= 1)
    /\ [][\A k \in Conns :
             (/\ reader[k].pc = "read"
              /\ ev'.kind = "dispatch"
              /\ ev'.k = k
              /\ \E c \in Calls :
                    /\ call[c].id = ev'.rid
                    /\ \/ call[c].pc = "wait" /\ chanbuf[call[c].ch] # <<>>
                       \/ call[c].pc \in {"done", "challenge"} /\ call[c].err = "")
             => /\ chanbuf' = chanbuf
                /\ reader'[k].pc \in {"read", "cleanup"}]_vars

\* A second response was read for a request whose call has returned with
\* the first, while another request is pending
C32_Witness ==
    /\ ev.kind = "dispatch"
    /\ \E c \in Calls : call[c].id = ev.rid /\ call[c].pc = "done" /\ call[c].err = ""
    /\ \E id \in DOMAIN pendingRequests : id # ev.rid

-----------------------------------------------------------------------------
(* Termination of sendRequest: the goroutines under fair scheduling *)

NextLive ==
    \/ MainConnect
    \/ \E k \in Conns : Break(k)
    \/ \E k \in Conns : ReaderRead(k)
    \/ \E k \in Conns : ReaderCleanup(k)
    \/ \E k \in Conns : ReaderReadErr(k)
    \/ \E k \in Conns : ReaderClose(k)
    \/ \E c \in Calls : Transfer(c)
    \/ \E c \in Calls : Authenticate(c)
    \/ \E c \in Calls : SendRequestWrite(c)
    \/ \E c \in Calls : SendRequestRecv(c)
    \/ \E c \in Calls : SendRequestTimeout(c)
    \/ \E c \in Calls : AuthChallenge(c)
    \/ \E c \in Calls : VerifyWrite(c)
    \/ \E c \in Calls : VerifyRecv(c)
    \/ \E c \in Calls : VerifyTimeout(c)

\* A goroutine inside sendRequest that can take its next step takes it: the
\* write once mu is free, and the select, whose timer fires after
\* RESPONSE_TIMEOUT_SEC when no response has come.
SendRequestFair ==
    \A c \in Calls :
        WF_vars(SendRequestWrite(c) \/ SendRequestRecv(c) \/ SendRequestTimeout(c))

LiveSpec == Init /\ [][NextLive]_vars /\ SendRequestFair

\* C33 as stated: every sendRequest call eventually returns, with a
\* response, a timeout error or a send error.
C33_SendRequestReturns ==
    \A c \in Calls :
        (call[c].pc \in {"write", "wait"} /\ call[c].method \in SendRequestMethods)
            ~> (call[c].pc \in {"done", "challenge"})

-----------------------------------------------------------------------------
(* The two locks: sendRequest, Authenticate and the reader loop at the      *)
(* granularity of Lock and Unlock                                           *)

\* A goroutine holds responseMu in mode "W" (Lock) or "R" (RLock).
Hold(g, mode) == [g |-> g, mode |-> mode]

\* Faulty variant: the write is made without waiting for the lock
MuNotAwaited(m) == TRUE

\* c.mu.Lock() returns when no goroutine holds mu
MuFree(m) == m = NoHolder

\* c.responseMu.Lock() returns when no goroutine holds responseMu
CanLock(holders) == holders = {}

\* c.responseMu.RLock() returns when no goroutine holds it for writing
CanRLock(holders) == \A h \in holders : h.mode = "R"

\* Faulty variant: the lock is not released
KeepLocked(holders, g) == holders

\* c.responseMu.Unlock() / RUnlock() by goroutine g
Release(holders, g) == {h \in holders : h.g # g}

\* Transfer: the connectivity flag is read, then sendRequest("transfer")
LockTransfer(c) ==
    /\ Free(c)
    /\ IF PassesConnectedCheck(isConnected)
       THEN /\ call' = [call EXCEPT ![c] = [NoCall EXCEPT !.op = "transfer",
                                                          !.pc = "begin",
                                                          !.method = "transfer"]]
            /\ ev' = NoEv
       ELSE /\ call' = [call EXCEPT ![c] = [NoCall EXCEPT !.op = "transfer",
                                                          !.pc = "done"]]
            /\ ev' = ReturnEv("Transfer", c, 0, NoResp, "", "client is not connected")
    /\ UNCHANGED <<conn, isConnected, lastReqID, pendingRequests, muHeld, chanbuf,
                   sock, reader, wire, jwtToken, assigned, authenticated, unit,
                   mu, responseMu>>

\* Authenticate: sendRequest("auth_request"), the flag is not read
LockAuthenticate(c) ==
    /\ Free(c)
    /\ call' = [call EXCEPT ![c] = [NoCall EXCEPT !.op = "auth", !.pc = "begin",
                                                  !.method = "auth_request"]]
    /\ ev' = NoEv
    /\ UNCHANGED <<conn, isConnected, lastReqID, pendingRequests, muHeld, chanbuf,
                   sock, reader, wire, jwtToken, assigned, authenticated, unit,
                   mu, responseMu>>

\* requestID := c.lastReqID.Add(1); responseChan := make(...);
\* c.responseMu.Lock()
RegisterLock(c) ==
    /\ call[c].pc = "begin"
    /\ CanLock(responseMu)
    /\ LET requestID == NextReqID(lastReqID)
           responseChan == Len(assigned) + 1
       IN  /\ lastReqID' = requestID
           /\ assigned' = Append(assigned, requestID)
           /\ chanbuf' = MakeChan(chanbuf, responseChan)
           /\ call' = [call EXCEPT ![c].pc = "register", ![c].id = requestID,
                                    ![c].ch = responseChan]
    /\ responseMu' = responseMu \cup {Hold(Caller(c), "W")}
    /\ ev' = NoEv
    /\ UNCHANGED <<conn, isConnected, pendingRequests, muHeld, sock, reader, wire,
                   jwtToken, authenticated, unit, mu>>

\* c.pendingRequests[requestID] = responseChan; c.responseMu.Unlock()
RegisterUnlock(c) ==
    /\ call[c].pc = "register"
    /\ pendingRequests' = Register(pendingRequests, call[c].id, call[c].ch)
    /\ responseMu' = Release(responseMu, Caller(c))
    /\ call' = [call EXCEPT ![c].pc = "write"]
    /\ ev' = NoEv
    /\ UNCHANGED <<conn, isConnected, lastReqID, muHeld, chanbuf, sock, reader,
                   wire, jwtToken, assigned, authenticated, unit, mu>>

\* c.mu.Lock()
WriteLock(c) ==
    /\ call[c].pc = "write"
    /\ MuFree(mu)
    /\ mu' = Caller(c)
    /\ call' = [call EXCEPT ![c].pc = "writing"]
    /\ ev' = NoEv
    /\ UNCHANGED <<conn, isConnected, lastReqID, pendingRequests, muHeld, chanbuf,
                   sock, reader, wire, jwtToken, assigned, authenticated, unit,
                   responseMu>>

\* err = c.conn.WriteJSON(message); c.mu.Unlock().  On a nil conn WriteJSON
\* panics and mu stays locked.
WriteUnlock(c) ==
    /\ call[c].pc = "writing"
    /\ IF conn = 0
       THEN /\ muHeld' = TRUE
            /\ call' = [call EXCEPT ![c].pc = "panicked"]
            /\ UNCHANGED <<wire, mu>>
       ELSE IF sock[conn] = "open"
       THEN /\ wire' = wire \cup {IF call[c].method = "auth_verify"
                                  THEN VerifyEnvelope(call[c].id, call[c].resp)
                                  ELSE Envelope(call[c].id, call[c].method)}
            /\ mu' = NoHolder
            /\ call' = [call EXCEPT ![c].pc = "wait"]
            /\ UNCHANGED muHeld
       ELSE /\ mu' = NoHolder
            /\ call' = [call EXCEPT ![c].pc = "failed", ![c].err = "send"]
            /\ UNCHANGED <<wire, muHeld>>
    /\ ev' = NoEv
    /\ UNCHANGED <<conn, isConnected, lastReqID, pendingRequests, chanbuf, sock,
                   reader, jwtToken, assigned, authenticated, unit, responseMu>>

\* case <-time.After(...): the timeout branch of the select is taken
TimerFires(c) ==
    /\ call[c].pc = "wait"
    /\ call' = [call EXCEPT ![c].pc = "failed", ![c].err = "timeout"]
    /\ ev' = NoEv
    /\ UNCHANGED <<conn, isConnected, lastReqID, pendingRequests, muHeld, chanbuf,
                   sock, reader, wire, jwtToken, assigned, authenticated, unit,
                   mu, responseMu>>

\* The error paths (write failed, timer fired): c.responseMu.Lock()
DeleteLock(c) ==
    /\ call[c].pc = "failed"
    /\ CanLock(responseMu)
    /\ responseMu' = responseMu \cup {Hold(Caller(c), "W")}
    /\ call' = [call EXCEPT ![c].pc = "delete"]
    /\ ev' = NoEv
    /\ UNCHANGED <<conn, isConnected, lastReqID, pendingRequests, muHeld, chanbuf,
                   sock, reader, wire, jwtToken, assigned, authenticated, unit, mu>>

\* What the failed step reports
FailedStepOut(method, err) ==
    IF method # "auth_verify" THEN FailedOut(method)
    ELSE IF err = "send" THEN "failed to send auth_verify"
    ELSE "auth_verify timeout"

\* delete(c.pendingRequests, requestID); c.responseMu.Unlock(); return the
\* error
DeleteUnlock(c) ==
    /\ call[c].pc = "delete"
    /\ pendingRequests' = Remove(pendingRequests, call[c].id)
    /\ responseMu' = Release(responseMu, Caller(c))
    /\ chanbuf' = DropChan(chanbuf, call[c].ch)
    /\ call' = [call EXCEPT ![c] = Returned(c, call[c].id, call[c].err)]
    /\ ev' = ReturnEv(IF call[c].method = "auth_verify" THEN "auth_verify"
                      ELSE "sendRequest",
                      c, call[c].id, NoResp, call[c].err,
                      FailedStepOut(call[c].method, call[c].err))
    /\ UNCHANGED <<conn, isConnected, lastReqID, muHeld, sock, reader, wire,
                   jwtToken, assigned, authenticated, unit, mu>>

\* case response := <-responseChan.  Authenticate goes on from the
\* challenge to its auth_verify, and ends with the answer to auth_verify;
\* Transfer parses the data and returns.
Receive(c) ==
    /\ call[c].pc = "wait"
    /\ chanbuf[call[c].ch] # <<>>
    /\ LET response == Head(chanbuf[call[c].ch]) IN
       IF call[c].method = "auth_request"
       THEN /\ IF ChallengeObtained(response)
               THEN /\ call' = [call EXCEPT ![c].pc = "begin",
                                             ![c].method = "auth_verify",
                                             ![c].ch = 0,
                                             ![c].resp = response]
                    /\ ev' = ReturnEv("sendRequest", c, call[c].id, response, "", "")
               ELSE /\ call' = [call EXCEPT ![c] = Returned(c, call[c].id, "")]
                    /\ ev' = ReturnEv("Authenticate", c, call[c].id, NoResp, "",
                                      "invalid challenge response format")
            /\ UNCHANGED <<jwtToken, authenticated>>
       ELSE IF call[c].method = "auth_verify"
       THEN /\ call' = [call EXCEPT ![c] = Returned(c, call[c].id, "")]
            /\ ev' = ReturnEv("auth_verify", c, call[c].id, response, "",
                              VerifyOut(response))
            /\ jwtToken' = StoreToken(jwtToken, response)
            /\ authenticated' = AuthenticatedOn(authenticated, conn, response)
       ELSE /\ call' = [call EXCEPT ![c] = Returned(c, call[c].id, "")]
            /\ ev' = ReturnEv("sendRequest", c, call[c].id, response, "",
                              ParseTransferOut(response.Data))
            /\ UNCHANGED <<jwtToken, authenticated>>
    /\ chanbuf' = DropChan(chanbuf, call[c].ch)
    /\ UNCHANGED <<conn, isConnected, lastReqID, pendingRequests, muHeld, sock,
                   reader, wire, assigned, unit, mu, responseMu>>

\* The reader loop: ReadJSON returned a well-formed response;
\* c.responseMu.RLock()
ReaderRLock(k) ==
    /\ reader[k].pc = "read"
    /\ sock[reader[k].on] = "open"
    /\ CanRLock(responseMu)
    /\ \E f \in Frames :
           reader' = [reader EXCEPT ![k].pc = "offer", ![k].rid = ToUint64(f.num)]
    /\ responseMu' = responseMu \cup {Hold(Reader(k), "R")}
    /\ ev' = NoEv
    /\ UNCHANGED <<conn, isConnected, lastReqID, pendingRequests, muHeld, chanbuf,
                   sock, call, wire, jwtToken, assigned, authenticated, unit, mu>>

\* if ch, exists := ...; exists { select { case ch <- response: default: } };
\* c.responseMu.RUnlock(), for a response of Frames with the ID read.  (What
\* the response holds besides its ID plays no part before this step and is
\* chosen here.)
ReaderRUnlock(k) ==
    /\ reader[k].pc = "offer"
    /\ \E f \in Frames :
        /\ ToUint64(f.num) = reader[k].rid
        /\ chanbuf' = TrySend(chanbuf, LookupChan(pendingRequests, reader[k].rid),
                              Decode(f))
        /\ responseMu' = Release(responseMu, Reader(k))
        /\ reader' = [reader EXCEPT ![k].pc = "locking"]
        /\ ev' = DispatchEv(k, reader[k].rid,
                            LookupChan(pendingRequests, reader[k].rid) # 0)
        /\ UNCHANGED <<conn, isConnected, lastReqID, pendingRequests, muHeld, sock,
                       call, wire, jwtToken, assigned, authenticated, unit, mu>>

\* "Clean up": c.responseMu.Lock()
ReaderLock(k) ==
    /\ reader[k].pc = "locking"
    /\ CanLock(responseMu)
    /\ responseMu' = responseMu \cup {Hold(Reader(k), "W")}
    /\ reader' = [reader EXCEPT ![k].pc = "delete"]
    /\ ev' = NoEv
    /\ UNCHANGED <<conn, isConnected, lastReqID, pendingRequests, muHeld, chanbuf,
                   sock, call, wire, jwtToken, assigned, authenticated, unit, mu>>

\* delete(c.pendingRequests, response.RequestID); c.responseMu.Unlock(); the
\* next iteration evaluates c.conn again
ReaderUnlock(k) ==
    /\ reader[k].pc = "delete"
    /\ pendingRequests' = ReaderCleanupTable(pendingRequests, reader[k].rid)
    /\ responseMu' = Release(responseMu, Reader(k))
    /\ reader' = [reader EXCEPT ![k].pc = "read", ![k].on = conn, ![k].rid = 0]
    /\ ev' = NoEv
    /\ UNCHANGED <<conn, isConnected, lastReqID, muHeld, chanbuf, sock, call,
                   wire, jwtToken, assigned, authenticated, unit, mu>>

NextLock ==
    \/ MainConnect
    \/ \E k \in Conns : Break(k)
    \/ \E k \in Conns : ReaderRLock(k)
    \/ \E k \in Conns : ReaderRUnlock(k)
    \/ \E k \in Conns : ReaderLock(k)
    \/ \E k \in Conns : ReaderUnlock(k)
    \/ \E k \in Conns : ReaderReadErr(k)
    \/ \E k \in Conns : ReaderClose(k)
    \/ \E c \in Calls : LockTransfer(c)
    \/ \E c \in Calls : LockAuthenticate(c)
    \/ \E c \in Calls : RegisterLock(c)
    \/ \E c \in Calls : RegisterUnlock(c)
    \/ \E c \in Calls : WriteLock(c)
    \/ \E c \in Calls : WriteUnlock(c)
    \/ \E c \in Calls : TimerFires(c)
    \/ \E c \in Calls : DeleteLock(c)
    \/ \E c \in Calls : DeleteUnlock(c)
    \/ \E c \in Calls : Receive(c)

LockSpec == Init /\ [][NextLock]_vars

HoldsMu(g) == mu = g

HoldsResponseMu(g) == \E h \in responseMu : h.g = g

\* The callers that are inside c.conn.WriteJSON
Writing == {c \in Calls : call[c].pc = "writing"}

\* C34: at most one goroutine is inside WriteJSON at any time, and a
\* goroutine that is inside WriteJSON, for a request of sendRequest or for
\* auth_verify, holds mu.
C34_WritesUnderLock ==
    /\ Cardinality(Writing) <= 1
    /\ \A c \in Writing : HoldsMu(Caller(c))

\* auth_verify is being written while the other caller waits for mu
C34_Witness ==
    \E c, d \in Calls :
        /\ call[c].pc = "writing"
        /\ call[c].method = "auth_verify"
        /\ HoldsMu(Caller(c))
        /\ call[d].pc = "write"

\* C35: no goroutine holds mu and responseMu at the same time, and none
\* holds one of them while it waits for a lock; responseMu is held by one
\* goroutine, or by readers only; a caller that holds mu inside WriteJSON
\* keeps no other caller from taking responseMu to register its channel,
\* nor the reader loop from taking it to deliver a response.
C35_LocksNeverNested ==
    /\ \A g \in {Caller(c) : c \in Calls} \cup {Reader(k) : k \in Conns} :
           /\ ~(HoldsMu(g) /\ HoldsResponseMu(g))
           /\ (IF g.kind = "caller"
               THEN call[g.n].pc \in {"begin", "write", "failed"}
               ELSE reader[g.n].pc = "locking")
              => ~HoldsMu(g) /\ ~HoldsResponseMu(g)
    /\ \A h, j \in responseMu : h # j => (h.mode = "R" /\ j.mode = "R")
    /\ (Writing # {} /\ responseMu = {}) =>
           /\ \A c \in Calls : call[c].pc = "begin" => ENABLED RegisterLock(c)
           /\ \A k \in Conns :
                  (reader[k].pc = "read" /\ sock[reader[k].on] = "open")
                      => ENABLED ReaderRLock(k)

\* One caller is inside WriteJSON with mu while the other registers its
\* channel under responseMu
C35_Witness ==
    \E c, d \in Calls :
        /\ call[c].pc = "writing"
        /\ HoldsMu(Caller(c))
        /\ call[d].pc = "register"
        /\ HoldsResponseMu(Caller(d))

-----------------------------------------------------------------------------
(* The operational check of every token request *)

\* Token requests on the connected client, with a node that answers the
\* requests of a check with any data, any method and any assigned ID, or
\* not at all.
NextOperational ==
    \/ \E k \in Conns : ReaderReadAny(k)
    \/ \E k \in Conns : ReaderCleanup(k)
    \/ \E c \in Calls : NextRequest(c)
    \/ \E c \in Calls : RequestCall(c)
    \/ \E c \in Calls : SendRequestWrite(c)
    \/ \E c \in Calls : SendRequestRecv(c)
    \/ \E c \in Calls : SendRequestTimeout(c)

OperationalSpec == InitServing /\ [][NextOperational]_vars

\* A request of an operational check returned in the step that led here
CheckReturned ==
    /\ SendRequestReturned
    /\ call[ev.c].op = "request"
    /\ \/ Envelope(ev.id, "get_assets") \in wire
       \/ Envelope(ev.id, "get_ledger_balances") \in wire

\* C37: each step of an operational check sends a request under a request
\* ID never used before, and the check goes on, or fails, by the response to
\* that request alone: it passes to the transfer only on the balance
\* response of its own get_ledger_balances, and a response without the
\* required balance makes it fail whatever earlier checks found.
C37_CheckAsksAfresh ==
    /\ [](CheckReturned /\ ev.err = "" =>
            /\ ev.resp.RequestID = ev.id
            /\ ev.resp.Data = "empty" =>
                  (ev.out = "service not operational" /\ call[ev.c].pc = "done")
            /\ ev.resp.Data # "empty" =>
                  (ev.out = "" /\ call[ev.c].pc \in {"balances", "transfer"}))
    /\ [][\A c \in Calls :
             /\ (/\ call[c].op = "request"
                 /\ call[c].pc \in {"assets", "balances"}
                 /\ call'[c] # call[c]
                 /\ isConnected) =>
                    /\ call'[c].pc = "write"
                    /\ call'[c].method =
                           (IF call[c].pc = "assets" THEN "get_assets"
                            ELSE "get_ledger_balances")
                    /\ \A i \in DOMAIN assigned : assigned[i] # call'[c].id
                    /\ call'[c].id \in DOMAIN pendingRequests'
             /\ (/\ call[c].op = "request"
                 /\ call'[c].pc \in {"balances", "transfer"}
                 /\ call'[c].pc # call[c].pc) =>
                    /\ call[c].pc = "wait"
                    /\ call[c].method =
                           (IF call'[c].pc = "balances" THEN "get_assets"
                            ELSE "get_ledger_balances")
                    /\ Envelope(call[c].id, call[c].method) \in wire
                    /\ Head(chanbuf[call[c].ch]).RequestID = call[c].id
                    /\ Head(chanbuf[call[c].ch]).Data # "empty"]_vars

\* The check of a token request fails on its balance response after the
\* check of an earlier token request had passed and its transfer was sent
C37_Witness ==
    /\ CheckReturned
    /\ ev.out = "service not operational"
    /\ Envelope(ev.id, "get_ledger_balances") \in wire
    /\ \E d \in Calls :
        /\ d # ev.c
        /\ call[d].pc = "done"
        /\ Envelope(call[d].id, "transfer") \in wire
        /\ call[d].id < ev.id - 1

-----------------------------------------------------------------------------
(* Transfer and the responses of method "error" *)

\* Transfers on a client main has connected, with a node that answers with
\* any method and any data, or not at all.
NextTransfer ==
    \/ MainConnect
    \/ \E k \in Conns : Break(k)
    \/ \E k \in Conns : ReaderReadAny(k)
    \/ \E k \in Conns : ReaderCleanup(k)
    \/ \E k \in Conns : ReaderReadErr(k)
    \/ \E k \in Conns : ReaderClose(k)
    \/ \E c \in Calls : Transfer(c)
    \/ \E c \in Calls : SendRequestWrite(c)
    \/ \E c \in Calls : SendRequestRecv(c)
    \/ \E c \in Calls : SendRequestTimeout(c)

TransferSpec == Init /\ [][NextTransfer]_vars

\* C38: a Transfer whose request was answered with method "error" returns
\* an error, whatever the data of the response.
C38_ErrorAnswerFailsTransfer ==
    (/\ SendRequestReturned
     /\ call[ev.c].op = "transfer"
     /\ ev.err = ""
     /\ ev.resp.Method = "error") => ev.out # "ok"

-----------------------------------------------------------------------------
(* Frames that are not well-formed responses *)

\* The JSON types of the elements of "res" in the frames the node may
\* send: a response, a response with a fifth element, and frames with too
\* few elements or with one element of another type.
ResShapes ==
    {<<"number", "string", "object", "number">>,
     <<"number", "string", "object", "number", "string">>,
     <<>>,
     <<"number", "string", "object">>,
     <<"string", "string", "object", "number">>,
     <<"number", "number", "object", "number">>,
     <<"number", "string", "string", "number">>,
     <<"number", "string", "object", "object">>}

\* Faulty variant: the elements are taken without the checks
TakeUnchecked(types) == TRUE

\* if len(message.Res) >= 4 and the four type assertions
WellFormed(types) ==
    /\ Len(types) >= 4
    /\ types[1] = "number"
    /\ types[2] = "string"
    /\ types[3] = "object"
    /\ types[4] = "number"

\* ReadJSON returned a frame with res of the element types given and, where
\* the types allow, the values of f: a well-formed response is dispatched,
\* any other frame is skipped (continue) and c.conn is evaluated again.
ReadFrame(k, types, f) ==
    /\ reader[k].pc = "read"
    /\ sock[reader[k].on] = "open"
    /\ IF WellFormed(types)
       THEN Dispatch(k, f)
       ELSE /\ reader' = [reader EXCEPT ![k].on = conn]
            /\ ev' = [kind |-> "skip", k |-> k, types |-> types]
            /\ UNCHANGED <<conn, isConnected, lastReqID, pendingRequests, muHeld,
                           chanbuf, sock, call, wire, jwtToken,
                           authenticated, unit, mu, responseMu, assigned>>

NextFrame ==
    \/ MainConnect
    \/ \E k \in Conns : Break(k)
    \/ \E k \in Conns : \E types \in ResShapes : \E f \in Frames : ReadFrame(k, types, f)
    \/ \E k \in Conns : ReaderCleanup(k)
    \/ \E k \in Conns : ReaderReadErr(k)
    \/ \E k \in Conns : ReaderClose(k)
    \/ \E c \in Calls : Transfer(c)
    \/ \E c \in Calls : SendRequestWrite(c)
    \/ \E c \in Calls : SendRequestRecv(c)
    \/ \E c \in Calls : SendRequestTimeout(c)

FrameSpec == Init /\ [][NextFrame]_vars

\* C39: reading a frame with fewer than four res elements, or with one of
\* the first four of the wrong type, changes neither the connectivity flag
\* nor the pending-request table nor any channel nor any caller, and the
\* reader loop is at its next read.
C39_MalformedFrameSkipped ==
    [][\A k \in Conns : \A types \in ResShapes : \A f \in Frames :
          (/\ \/ Len(types) < 4
              \/ \E i \in 1 .. 4 :
                    types[i] # <<"number", "string", "object", "number">>[i]
           /\ ReadFrame(k, types, f)) =>
              /\ isConnected' = isConnected
              /\ pendingRequests' = pendingRequests
              /\ chanbuf' = chanbuf
              /\ call' = call
              /\ sock' = sock
              /\ reader'[k].pc = "read"]_vars

\* A frame with a request ID of the wrong type was skipped while a caller
\* waits for its response
C39_Witness ==
    /\ ev.kind = "skip"
    /\ ev.types = <<"string", "string", "object", "number">>
    /\ isConnected
    /\ \E c \in Calls :
        /\ call[c].pc = "wait"
        /\ chanbuf[call[c].ch] = <<>>
        /\ call[c].id \in DOMAIN pendingRequests

-----------------------------------------------------------------------------
(* Sequential functions, each examined on its own arguments *)

\* The call of function name with arguments arg, before it has run
FnCall(name, arg) == [name |-> name, arg |-> arg, done |-> FALSE, out |-> <<>>]

\* The function of unit returns out.
FnReturn(name, out) ==
    /\ unit.name = name
    /\ ~unit.done
    /\ unit' = [unit EXCEPT !.done = TRUE, !.out = out]
    /\ UNCHANGED <<conn, isConnected, lastReqID, pendingRequests, muHeld, chanbuf,
                   sock, reader, call, wire, ev, jwtToken, assigned, authenticated,
                   mu, responseMu>>

\* Function name has returned.
FnReturned(name) == unit.name = name /\ unit.done

(* NewClient with an owner key and a signer key *)

\* Number of hexadecimal digits of a private key in the model.
KeyLen == 2

HexDigits == {"a", "b"}

\* A configured key: a body of KeyLen characters, written with or without
\* the 0x prefix.
KeyInputs == [prefix : BOOLEAN, body : [1 .. KeyLen -> HexDigits \cup {"z"}]]

\* The string of a configured key
KeyText(k) == (IF k.prefix THEN <<"0", "x">> ELSE <<>>) \o k.body

\* Faulty variant: the prefix is kept
KeepPrefix(privateKeyHex) == privateKeyHex

\* if len(privateKeyHex) > 2 && privateKeyHex[:2] == "0x" {
\*     privateKeyHex = privateKeyHex[2:] }
StripPrefix(privateKeyHex) ==
    IF Len(privateKeyHex) > 2 /\ privateKeyHex[1] = "0" /\ privateKeyHex[2] = "x"
    THEN SubSeq(privateKeyHex, 3, Len(privateKeyHex))
    ELSE privateKeyHex

\* crypto.HexToECDSA: the string must be a key's worth of hexadecimal digits
HexToECDSA(hex) ==
    IF Len(hex) = KeyLen /\ \A i \in 1 .. Len(hex) : hex[i] \in HexDigits
    THEN [err |-> "", key |-> hex]
    ELSE [err |-> "failed to parse private key", key |-> <<>>]

\* crypto.PubkeyToAddress: different keys have different addresses
PubkeyToAddress(key) == <<"address">> \o key

\* NewClient(ownerPrivateKeyHex, signerPrivateKeyHex, ...): both keys are
\* cleaned and parsed, equal keys are refused, and the client is built
\* without any use of the network.
NewClient(ownerPrivateKeyHex, signerPrivateKeyHex) ==
    LET owner == HexToECDSA(StripPrefix(ownerPrivateKeyHex))
        signer == HexToECDSA(StripPrefix(signerPrivateKeyHex))
    IN  IF owner.err # "" THEN [err |-> owner.err, client |-> <<>>]
        ELSE IF signer.err # "" THEN [err |-> signer.err, client |-> <<>>]
        ELSE IF owner.key = signer.key
        THEN [err |-> "owner and signer private keys must be different",
              client |-> <<>>]
        ELSE [err |-> "",
              client |-> <<PubkeyToAddress(owner.key), PubkeyToAddress(signer.key)>>]

NewClientInputs == [owner : KeyInputs, signer : KeyInputs]

NewClientCall ==
    /\ unit.name = "NewClient"
    /\ FnReturn("NewClient", NewClient(KeyText(unit.arg.owner), KeyText(unit.arg.signer)))

\* The key is one HexToECDSA accepts.
ValidKey(k) == \A i \in 1 .. KeyLen : k.body[i] \in HexDigits

MaxAmount == 4
\* Largest configured MIN_TRANSFER_COUNT in the model.
MaxCount == 2
\* Largest configured STANDARD_TIP_AMOUNT in the model.
MaxTip == 2

Symbols == {"usdc", "weth"}

\* The balances the node reports: at most one entry for an asset
Ledgers ==
    {l \in UNION {[1 .. n -> [asset : Symbols, amount : 0 .. MaxAmount]] : n \in 0 .. 2} :
        \A i, j \in DOMAIN l : l[i].asset = l[j].asset => i = j}

\* for _, asset := range assets { if asset.Symbol == tokenSymbol { return nil } }
\* return "token is not supported"
validateTokenSupport(assets, tokenSymbol) ==
    IF \E i \in DOMAIN assets : assets[i] = tokenSymbol
    THEN "" ELSE "token is not supported by Clearnode"

\* Faulty variant: the first entry is taken, whatever its asset
FirstEntryBalance(ledger, tokenSymbol) ==
    IF ledger = <<>> THEN 0 ELSE ledger[1].amount

\* parseTokenBalance: the amount of the first entry for tokenSymbol, "0"
\* when there is none
parseTokenBalance(ledger, tokenSymbol) ==
    LET hits == {i \in DOMAIN ledger : ledger[i].asset = tokenSymbol}
    IN  IF hits = {} THEN 0
        ELSE ledger[CHOOSE i \in hits : \A j \in hits : i <= j].amount

\* Faulty variant: a balance equal to the requirement is refused
RefuseExactBalance(balance, standardTipAmount, minTransferCount) ==
    IF balance <= standardTipAmount * minTransferCount
    THEN "insufficient balance" ELSE ""

\* minRequiredBalance := standardTipAmount.Mul(minTransferCount);
\* if balance.Amount.LessThan(minRequiredBalance) { return "insufficient ..." }
checkFaucetBalance(balance, standardTipAmount, minTransferCount) ==
    IF balance < standardTipAmount * minTransferCount
    THEN "insufficient balance" ELSE ""

\* The token is validated first, then the balance.
OperationalCheck(a) ==
    LET err == validateTokenSupport(a.assets, a.tokenSymbol)
    IN  IF err # "" THEN err
        ELSE checkFaucetBalance(parseTokenBalance(a.ledger, a.tokenSymbol),
                                a.tip, a.count)

OperationalInputs ==
    [assets : UNION {[1 .. n -> Symbols] : n \in 0 .. 2},
     ledger : Ledgers,
     tokenSymbol : {"usdc"},
     tip : 1 .. MaxTip,
     count : 0 .. MaxCount]

OperationalCheckCall ==
    /\ unit.name = "OperationalCheck"
    /\ FnReturn("OperationalCheck", [err |-> OperationalCheck(unit.arg)])

\* The node lists the asset.
Listed(a) == \E i \in DOMAIN a.assets : a.assets[i] = a.tokenSymbol

\* The client's balance in the configured asset
BalanceIn(a) ==
    IF \E i \in DOMAIN a.ledger : a.ledger[i].asset = a.tokenSymbol
    THEN (CHOOSE e \in {a.ledger[i] : i \in DOMAIN a.ledger} :
              e.asset = a.tokenSymbol).amount
    ELSE 0

C40_MissingBalanceIsZero ==
    (/\ FnReturned("OperationalCheck")
     /\ Listed(unit.arg)
     /\ \A i \in DOMAIN unit.arg.ledger :
           unit.arg.ledger[i].asset # unit.arg.tokenSymbol) =>
        IF unit.arg.tip * unit.arg.count > 0
        THEN unit.out.err = "insufficient balance"
        ELSE unit.out.err = ""

\* The list holds another asset with a balance that would have sufficed
C40_Witness ==
    /\ FnReturned("OperationalCheck")
    /\ Listed(unit.arg)
    /\ \A i \in DOMAIN unit.arg.ledger :
          unit.arg.ledger[i].asset # unit.arg.tokenSymbol
    /\ unit.arg.tip * unit.arg.count > 0
    /\ \E i \in DOMAIN unit.arg.ledger :
          unit.arg.ledger[i].amount >= unit.arg.tip * unit.arg.count
    /\ unit.out.err = "insufficient balance"

(* Transfer: the request it builds and parseTransferResult *)

\* Longest transaction list in a response of the model.
MaxTxs == 2

\* The value under "id" of a transaction: a JSON string, a JSON number, or
\* no such key
TxIds ==
    [type : {"string"}, val : {"tx1", "tx2"}]
    \cup [type : {"number"}, val : {"7"}]
    \cup [type : {"absent"}, val : {""}]

\* An element of the list under "transactions": a JSON object, or any other
\* JSON value
TxElements == [object : {TRUE}, id : TxIds]
              \cup [object : {FALSE}, id : [type : {"absent"}, val : {""}]]

\* The value under "transactions" in the data of a transfer response: no
\* such key, a value that is not a list, or a list
TransferData ==
    [kind : {"missing", "notalist"}, list : {<<>>}]
    \cup [kind : {"list"}, list : UNION {[1 .. n -> TxElements] : n \in 0 .. MaxTxs}]

NoResult == [TransactionID |-> "", Amount |-> "", Asset |-> "", Destination |-> "",
             Status |-> ""]

\* transferData := TransferRequest{Destination: destination,
\*     Allocations: []Allocation{{Asset: asset, Amount: amount}}}
TransferRequest(destination, asset, amount) ==
    [destination |-> destination,
     allocations |-> <<[asset |-> asset, amount |-> amount]>>]

\* Faulty variant: the last transaction of the list is used
UseLastTransaction(data, destination, asset, amount) ==
    IF data.kind # "list"
    THEN [err |-> "invalid transfer response format", result |-> NoResult]
    ELSE IF Len(data.list) > 0 /\ ~data.list[Len(data.list)].object
    THEN [err |-> "invalid transaction data format", result |-> NoResult]
    ELSE [err |-> "",
          result |-> [TransactionID |->
                          IF Len(data.list) > 0
                             /\ data.list[Len(data.list)].id.type = "string"
                          THEN data.list[Len(data.list)].id.val ELSE "",
                      Amount |-> amount, Asset |-> asset,
                      Destination |-> destination, Status |-> "completed"]]

\* parseTransferResult: data["transactions"] must be a list; an empty list
\* gives a result with an empty transaction ID; otherwise the first
\* element must be an object, and its "id", when it is a string, is the
\* transaction ID.
parseTransferResult(data, destination, asset, amount) ==
    IF data.kind # "list"
    THEN [err |-> "invalid transfer response format", result |-> NoResult]
    ELSE IF Len(data.list) = 0
    THEN [err |-> "",
          result |-> [TransactionID |-> "", Amount |-> amount, Asset |-> asset,
                      Destination |-> destination, Status |-> "completed"]]
    ELSE IF ~data.list[1].object
    THEN [err |-> "invalid transaction data format", result |-> NoResult]
    ELSE [err |-> "",
          result |-> [TransactionID |-> IF data.list[1].id.type = "string"
                                        THEN data.list[1].id.val ELSE "",
                      Amount |-> amount, Asset |-> asset,
                      Destination |-> destination, Status |-> "completed"]]

\* Transfer on a connected client whose request is answered with data: the
\* request written and what Transfer returns
TransferResult(a) ==
    LET parsed == parseTransferResult(a.data, a.destination, a.asset, a.amount)
    IN  [request |-> TransferRequest(a.destination, a.asset, a.amount),
         err |-> IF parsed.err = "" THEN "" ELSE "failed to parse transfer result",
         cause |-> parsed.err,
         result |-> parsed.result]

TransferInputs ==
    [destination : {"0xA1", "0xB2"}, asset : Symbols, amount : {"10", "25"},
     data : TransferData]

TransferCall ==
    /\ unit.name = "Transfer"
    /\ FnReturn("Transfer", TransferResult(unit.arg))

\* The result carries what was passed to Transfer.
EchoesRequest(a, out) ==
    /\ out.result.Asset = a.asset
    /\ out.result.Amount = a.amount
    /\ out.result.Destination = a.destination
    /\ out.request.destination = a.destination
    /\ Len(out.request.allocations) = 1
    /\ out.request.allocations[1] = [asset |-> a.asset, amount |-> a.amount]

C24_MissingListSucceeds ==
    (FnReturned("Transfer") /\ unit.arg.data.kind = "missing") =>
        /\ unit.out.err = ""
        /\ unit.out.result.TransactionID = ""
        /\ EchoesRequest(unit.arg, unit.out)

(* SignChallenge: the recovery byte of the signature *)

\* The last byte of the 65-byte signature as the signing backend returns
\* it: crypto.Sign gives 0 or 1, a backend of the other convention gives
\* 27 or 28.
RawRecoveryIDs == {0, 1, 27, 28}

\* Faulty variant: the byte is returned as the backend gave it
KeepRecoveryID(v) == v

\* if signature[64] < 27 { signature[64] += 27 }   (a byte: modulo 256)
NormalizeRecoveryID(v) == IF v < 27 THEN (v + 27) % 256 ELSE v

\* SignChallenge(...): the typed data is hashed and signed, and the
\* recovery byte of the 65-byte signature is normalised.
SignChallengeSignature(a) ==
    [len |-> 65, challenge |-> a.challenge, v |-> NormalizeRecoveryID(a.raw)]

SignChallengeInputs == [challenge : {"c1", "c2"}, raw : RawRecoveryIDs]

SignChallengeCall ==
    /\ unit.name = "SignChallenge"
    /\ FnReturn("SignChallenge", SignChallengeSignature(unit.arg))

ParamKeys == <<"address", "app_name", "scope">>

RangeOf(seq) == {seq[i] : i \in 1 .. Len(seq)}

\* The params objects of the model: some of the keys, each with a value
ParamMaps ==
    UNION {[keys -> {"x", "y"}] : keys \in SUBSET RangeOf(ParamKeys)}

\* The orders in which a range over a Go map may yield its keys: every
\* order is possible, and two ranges over the same map may differ.
IterationOrders(m) ==
    {order \in [1 .. Cardinality(DOMAIN m) -> DOMAIN m] :
        \A i, j \in DOMAIN order : i # j => order[i] # order[j]}

\* Faulty variant: the keys are written in the order the map yields them
MarshalMapUnsorted(m, order) ==
    [i \in 1 .. Len(order) |-> <<order[i], m[order[i]]>>]

\* encoding/json on a map: the keys the map yields are sorted, and the
\* entries are written in that order.
MarshalMap(m, order) ==
    LET sorted == SelectSeq(ParamKeys, LAMBDA k : k \in RangeOf(order))
    IN  [i \in 1 .. Len(sorted) |-> <<sorted[i], m[sorted[i]]>>]

\* encoding/json on req = []interface{}{requestID, method, params, timestamp}
Marshal(req, order) ==
    <<req[1], req[2], MarshalMap(req[3], order), req[4]>>

\* sendRequest: the timestamp is read once, req is built once, signMessage
\* serialises req and signs the hash of the bytes, and WriteJSON serialises
\* the envelope whose Req is the same req. The clock has moved on to
\* a.later by the time of the write.
SignedAndSent(a, signOrder, writeOrder) ==
    LET timestamp == a.now
        req == <<a.requestID, a.method, a.params, timestamp>>
    IN  [signed |-> Marshal(req, signOrder),
         sent |-> Marshal(req, writeOrder)]

SendRequestInputs ==
    {a \in [requestID : 1 .. 2, method : {"get_assets", "transfer"},
            params : ParamMaps, now : 1 .. 2, later : 1 .. 2] : a.now <= a.later}

SignAndSendCall ==
    /\ unit.name = "sendRequest"
    /\ \E signOrder, writeOrder \in IterationOrders(unit.arg.params) :
           FnReturn("sendRequest", SignedAndSent(unit.arg, signOrder, writeOrder))

TransferWhenNotOperational(a) ==
    IF a.body = "malformed"
    THEN [status |-> 400, error |-> "Invalid request format", calls |-> <<>>]
    ELSE IF a.address = "invalid"
    THEN [status |-> 400, error |-> "Invalid address format", calls |-> <<>>]
    ELSE IF ~a.connected
    THEN [status |-> 503, error |-> "Failed to connect to Clearnode",
          calls |-> <<"EnsureConnected">>]
    ELSE IF ~a.transferred
    THEN [status |-> 500, error |-> "Failed to send tokens",
          calls |-> <<"EnsureConnected", "EnsureOperational", "Transfer">>]
    ELSE [status |-> 200, error |-> "",
          calls |-> <<"EnsureConnected", "EnsureOperational", "Transfer">>]

\* requestTokens: the body is bound, the address is validated, and
\* EnsureConnected, EnsureOperational and Transfer are called in this order;
\* the first step that fails answers the request and returns. The outcomes
\* of the three calls are a.connected, a.operational and a.transferred.
requestTokens(a) ==
    IF a.body = "malformed"
    THEN [status |-> 400, error |-> "Invalid request format", calls |-> <<>>]
    ELSE IF a.address = "invalid"
    THEN [status |-> 400, error |-> "Invalid address format", calls |-> <<>>]
    ELSE IF ~a.connected
    THEN [status |-> 503, error |-> "Failed to connect to Clearnode",
          calls |-> <<"EnsureConnected">>]
    ELSE IF ~a.operational
    THEN [status |-> 503, error |-> "Faucet service is currently unavailable",
          calls |-> <<"EnsureConnected", "EnsureOperational">>]
    ELSE IF ~a.transferred
    THEN [status |-> 500, error |-> "Failed to send tokens",
          calls |-> <<"EnsureConnected", "EnsureOperational", "Transfer">>]
    ELSE [status |-> 200, error |-> "",
          calls |-> <<"EnsureConnected", "EnsureOperational", "Transfer">>]

RequestTokensInputs ==
    [body : {"malformed", "ok"}, address : {"invalid", "valid"},
     connected : BOOLEAN, operational : BOOLEAN, transferred : BOOLEAN]

RequestTokensCall ==
    /\ unit.name = "requestTokens"
    /\ FnReturn("requestTokens", requestTokens(unit.arg))

\* The well-formed request with a valid address
GoodInput(a) == a.body = "ok" /\ a.address = "valid"

\* C26: a token request calls Transfer only after the address was validated
\* and EnsureConnected and then EnsureOperational succeeded; a failure at a
\* stage ends the request with the status of that stage (400 for bad input,
\* 503 for a connection failure, 503 for a service that is not operational,
\* 500 for a failed transfer) and no later stage runs.
C26_StagesInOrder ==
    FnReturned("requestTokens") =>
        LET a == unit.arg
            out == unit.out
        IN  /\ (\E i \in DOMAIN out.calls : out.calls[i] = "Transfer") =>
                   /\ GoodInput(a) /\ a.connected /\ a.operational
                   /\ out.calls = <<"EnsureConnected", "EnsureOperational", "Transfer">>
            /\ ~GoodInput(a) => out.status = 400 /\ out.calls = <<>>
            /\ (GoodInput(a) /\ ~a.connected) =>
                   /\ out.status = 503
                   /\ out.error = "Failed to connect to Clearnode"
                   /\ out.calls = <<"EnsureConnected">>
            /\ (GoodInput(a) /\ a.connected /\ ~a.operational) =>
                   /\ out.status = 503
                   /\ out.error = "Faucet service is currently unavailable"
                   /\ out.calls = <<"EnsureConnected", "EnsureOperational">>
            /\ (GoodInput(a) /\ a.connected /\ a.operational /\ ~a.transferred) =>
                   out.status = 500
            /\ (GoodInput(a) /\ a.connected /\ a.operational /\ a.transferred) =>
                   out.status = 200

\* The service was not operational although the transfer would have
\* succeeded, and the request ended with 503 before Transfer
C26_Witness ==
    /\ FnReturned("requestTokens")
    /\ GoodInput(unit.arg)
    /\ unit.arg.connected /\ ~unit.arg.operational /\ unit.arg.transferred
    /\ unit.out.status = 503
    /\ unit.out.calls = <<"EnsureConnected", "EnsureOperational">>

(* The sequential functions on every input of the model *)

\* A client that was constructed and nothing else, and one call of one
\* function on one input.
FnInit ==
    /\ conn = 0
    /\ isConnected = FALSE
    /\ lastReqID = 0
    /\ pendingRequests = <<>>
    /\ muHeld = FALSE
    /\ chanbuf = <<>>
    /\ sock = [k \in Conns |-> "undialled"]
    /\ reader = [k \in Conns |-> NoReader]
    /\ call = [c \in Calls |-> NoCall]
    /\ wire = {}
    /\ ev = NoEv
    /\ jwtToken = 0
    /\ assigned = <<>>
    /\ authenticated = {}
    /\ mu = NoHolder
    /\ responseMu = {}
    /\ unit \in {FnCall("NewClient", a) : a \in NewClientInputs}
            \cup {FnCall("OperationalCheck", a) : a \in OperationalInputs}
            \cup {FnCall("Transfer", a) : a \in TransferInputs}
            \cup {FnCall("SignChallenge", a) : a \in SignChallengeInputs}
            \cup {FnCall("sendRequest", a) : a \in SendRequestInputs}
            \cup {FnCall("requestTokens", a) : a \in RequestTokensInputs}

FnNext ==
    \/ NewClientCall
    \/ OperationalCheckCall
    \/ TransferCall
    \/ SignChallengeCall
    \/ SignAndSendCall
    \/ RequestTokensCall

FnSpec == FnInit /\ [][FnNext]_vars

=============================================================================
